---- MODULE Spec2Model ----
(***************************************************************************)
(* Model of wrappers/services.go (snapd): the orchestration of systemd     *)
(* units for the service applications of a snap.                           *)
(*                                                                         *)
(* The host is the set of unit files on disk (disk) and the set of units   *)
(* systemd has enabled (enabledUnits).  Every call made to systemd, to the *)
(* filesystem, to the interacter (Notify), to the logger and to time.Sleep *)
(* is appended to log together with its result.  Each call to the outside  *)
(* is one step; its result is chosen nondeterministically.                 *)
(*                                                                         *)
(* One specification per exported operation: SpecAdd (AddSnapServices),    *)
(* SpecStart (StartServices), SpecStop (StopServices) and SpecRemove       *)
(* (RemoveSnapServices).  Ranging over a Go map (s.Apps, app.Sockets)      *)
(* visits its entries in any order.  Not modelled: the snapd-type branch   *)
(* of AddSnapServices (line 204), its notices about disabledSvcs (lines    *)
(* 210-217), os.MkdirAll (its result is dropped) and logger.Debugf.        *)
(*                                                                         *)
(* Further specifications: SpecRemoveTwice (RemoveSnapServices called a    *)
(* second time), SpecServicesEnableState (ServicesEnableState), SpecRender *)
(* (generateSnapServiceFile and the service template), SpecWeekSpan        *)
(* (makeAbbrevWeekdays and the entry of days for one week span),           *)
(* SpecClockSpan (the start time for one clock span) and SpecSchedule      *)
(* (generateOnCalendarSchedules over a whole schedule).  Their inputs are  *)
(* drawn from bounded sets in the initial states.  time.Weekday is an int  *)
(* of 64 bits; the loop of makeAbbrevWeekdays exhausts memory long before  *)
(* w could overflow, so w is a plain integer here.  timeout.DefaultTimeout *)
(* is 30 seconds and timeutil.EveryWeek and LastWeek are 0 and 5 in the    *)
(* packages that define them.                                              *)
(***************************************************************************)
EXTENDS Integers, Sequences, FiniteSets, TLC

\* ---------------------------------------------------------------- bounds
\* number of applications handed to an operation
MaxApps == 2
\* largest number of sockets of one application
MaxSockets == 1
\* largest number of failing outside calls in one run
MaxFaults == 2
\* largest stop-timeout and start-timeout of a descriptor, in seconds
MaxTimeout == 2
\* number of entries of out that memory has room for
MaxOut == 9
\* resolution of the clock: ticks in a minute
TicksPerMinute == 2
\* longest window of a clock span, in minutes
MaxWindow == 7
\* most chunks of a schedule
MaxChunks == 2
\* most week spans, and most clock spans, of a chunk
MaxSpans == 2

VARIABLES
    apps,          \* the application descriptors (snap.AppInfo), by position
    reason,        \* StopServices: the snap.ServiceStopReason
    disk,          \* units whose unit file exists on disk
    enabledUnits,  \* units enabled in systemd
    log,           \* every outside call so far, with its result
    pc,            \* position in the running operation
    err,           \* the operation's error result (Nil: no error)
    i,             \* StartServices/StopServices: index into apps
    remaining,     \* Add/RemoveSnapServices: apps the range loop has yet to visit
    cur,           \* the application being processed
    todo,          \* units the current range loop over app.Sockets has yet to visit
    curUnit,       \* StartServices: the socket unit just enabled
    stopErrors,    \* stopService: stopErrors
    sserr,         \* stopService: the value returned
    retpc,         \* stopService: where its caller continues
    services,      \* StartServices: services
    deferred,      \* StartServices: the applications with a deferred cleanup
    written,       \* AddSnapServices: written
    enabled,       \* AddSnapServices: enabled
    nservices,     \* RemoveSnapServices: nservices
    faults,        \* failing outside calls so far
    diskBefore,    \* the unit files on disk when the operation was called
    enabledBefore, \* the units enabled when the operation was called
    snapSvcsState, \* ServicesEnableState: snapSvcsState
    result,        \* ServicesEnableState: the map returned
    appInfo,       \* genServiceFile: the descriptor rendered
    content,       \* genServiceFile: the lines of the rendered unit
    week,          \* generateOnCalendarSchedules: the week span translated
    weekday,       \* makeAbbrevWeekdays: w
    out,           \* makeAbbrevWeekdays: out
    days,          \* generateOnCalendarSchedules: days
    span,          \* generateOnCalendarSchedules: the clock span translated
    startTimes,    \* generateOnCalendarSchedules: startTimes
    schedule,      \* generateOnCalendarSchedules: schedule
    sched,         \* generateOnCalendarSchedules: the number of the chunk translated
    calendarEvents \* generateOnCalendarSchedules: calendarEvents

\* the host state at the call, kept for comparison
hostBefore == <<diskBefore, enabledBefore>>
\* the variables of ServicesEnableState, of genServiceFile and of
\* generateOnCalendarSchedules
queryVars == <<snapSvcsState, result>>
renderVars == <<appInfo, content>>
calendarVars == <<week, weekday, out, days, span, startTimes>>
scheduleVars == <<schedule, sched, calendarEvents>>
otherVars == <<queryVars, renderVars, calendarVars, scheduleVars>>
\* the host state and the locals of the operations that call systemd
operationVars == <<disk, enabledUnits, log, err, i, remaining, cur, todo, curUnit,
                   stopErrors, sserr, retpc, services, deferred, written, enabled,
                   nservices, faults>>

vars == <<apps, reason, disk, enabledUnits, log, pc, err, i, remaining, cur, todo,
          curUnit, stopErrors, sserr, retpc, services, deferred, written, enabled,
          nservices, faults, hostBefore, otherVars>>

\* ------------------------------------------------------------ descriptors
AppIds == 1..MaxApps

\* snap.AppInfo, the fields the orchestration reads
\*   daemon      IsService(): Daemon != ""
\*   nsockets    len(app.Sockets)
\*   timer       app.Timer != nil
\*   valid       snap.ValidateApp(app) == nil
\*   timerOK     timeutil.ParseSchedule(app.Timer.Timer) succeeds
\*   disabled    app.Name is in disabledSvcs
\*   killAll     app.StopMode.KillAll()
\*   endure      app.RefreshMode == "endure"
NonService ==
    [daemon |-> FALSE, nsockets |-> 0, timer |-> FALSE, valid |-> TRUE, timerOK |-> TRUE,
     disabled |-> FALSE, killAll |-> TRUE, endure |-> FALSE]

IsService(a) == apps[a].daemon

Unit(a, kind, k) == [app |-> a, kind |-> kind, idx |-> k]
NoUnit == Unit(0, "none", 0)

\* app.ServiceName() / filepath.Base(app.ServiceFile())
ServiceName(a) == Unit(a, "service", 0)
\* filepath.Base(socket.File()) for every socket of app.Sockets
SocketUnits(a) == {Unit(a, "socket", k) : k \in 1..apps[a].nsockets}
\* filepath.Base(app.Timer.File())
TimerUnit(a) == Unit(a, "timer", 0)
HasTimer(a) == apps[a].timer
AllUnits(a) == {ServiceName(a)} \cup SocketUnits(a) \cup (IF HasTimer(a) THEN {TimerUnit(a)} ELSE {})

\* ------------------------------------------------------------------ events
Ev(op, unit, arg, res) == [op |-> op, unit |-> unit, arg |-> arg, res |-> res]
Nil == Ev("nil", NoUnit, "", "")

Bad(r) == r \in {"fail", "timeout"}
\* a failing result is drawn only while the run has failures left
Allowed(r) == Bad(r) => faults < MaxFaults
Count(r) == faults + (IF Bad(r) THEN 1 ELSE 0)

\* variant: no error is recognised as a timeout
IsTimeoutNever(e) == FALSE

\* systemd.IsTimeout(err)
IsTimeout(e) == e.res = "timeout"

\* ------------------------------------------------------------- stopService
\* variant: the last collected error instead of the first
StopServiceReturnLast(errs) == IF Len(errs) > 0 THEN errs[Len(errs)] ELSE Nil

\* services.go:96-100: the first collected socket/timer stop error, else nil
StopServiceReturn(errs) == IF Len(errs) > 0 THEN errs[1] ELSE Nil

SSAfterSockets(a) == IF HasTimer(a) THEN "ss_timer" ELSE "ss_service"
SSFirst(a) == IF SocketUnits(a) # {} THEN "ss_sockets" ELSE SSAfterSockets(a)

\* the call stopService(sysd, app, inter) with a the app, ret the caller's next position
SSEnter(a, ret) ==
    /\ cur' = a
    /\ todo' = SocketUnits(a)
    /\ stopErrors' = <<>>
    /\ retpc' = ret
    /\ pc' = SSFirst(a)

\* the results of a call; only the error of the service unit's Stop is tested for
\* its class (line 85), so only that call draws from StopResults
CallResults == {"ok", "fail"}
StopResults == {"ok", "fail", "timeout"}

\* services.go:72-76: sysd.Stop of one socket unit
SSStopSocket ==
    /\ pc = "ss_sockets"
    /\ \E u \in todo, r \in CallResults :
        /\ Allowed(r)
        /\ log' = Append(log, Ev("Stop", u, "", r))
        /\ stopErrors' = IF Bad(r) THEN Append(stopErrors, Ev("Stop", u, "", r)) ELSE stopErrors
        /\ todo' = todo \ {u}
        /\ pc' = IF todo \ {u} = {} THEN SSAfterSockets(cur) ELSE "ss_sockets"
        /\ faults' = Count(r)
    /\ UNCHANGED <<apps, reason, hostBefore, otherVars, disk, enabledUnits, err, i,
                   remaining, cur, curUnit, sserr, retpc, services, deferred, written,
                   enabled, nservices>>

\* services.go:78-82: sysd.Stop of the timer unit
SSStopTimer ==
    /\ pc = "ss_timer"
    /\ \E r \in CallResults :
        /\ Allowed(r)
        /\ log' = Append(log, Ev("Stop", TimerUnit(cur), "", r))
        /\ stopErrors' = IF Bad(r) THEN Append(stopErrors, Ev("Stop", TimerUnit(cur), "", r))
                         ELSE stopErrors
        /\ faults' = Count(r)
    /\ pc' = "ss_service"
    /\ UNCHANGED <<apps, reason, hostBefore, otherVars, disk, enabledUnits, err, i,
                   remaining, cur, todo, curUnit, sserr, retpc, services, deferred, written,
                   enabled, nservices>>

\* services.go:84-100: sysd.Stop of the service unit; a timeout notifies and escalates
SSStopService ==
    /\ pc = "ss_service"
    /\ \E r \in StopResults :
        /\ Allowed(r)
        /\ faults' = Count(r)
        /\ LET e == Ev("Stop", ServiceName(cur), "", r) IN
           IF ~Bad(r)
           THEN /\ log' = Append(log, e)
                /\ sserr' = StopServiceReturn(stopErrors)
                /\ pc' = retpc
           ELSE IF ~IsTimeout(e)
           THEN /\ log' = Append(log, e)
                /\ sserr' = e
                /\ pc' = retpc
           ELSE /\ log' = log \o <<e, Ev("Notify", ServiceName(cur), "refused to stop, killing", "")>>
                /\ sserr' = sserr
                /\ pc' = "ss_term"
    /\ UNCHANGED <<apps, reason, hostBefore, otherVars, disk, enabledUnits, err, i,
                   remaining, cur, todo, curUnit, stopErrors, retpc, services, deferred,
                   written, enabled, nservices>>

\* services.go:90: sysd.Kill(serviceName, "TERM", ""), its error dropped
SSKillTerm ==
    /\ pc = "ss_term"
    /\ \E r \in CallResults :
        /\ Allowed(r)
        /\ faults' = Count(r)
        /\ log' = Append(log, Ev("Kill", ServiceName(cur), "TERM", r))
    /\ pc' = "ss_kill"
    /\ UNCHANGED <<apps, reason, hostBefore, otherVars, disk, enabledUnits, err, i,
                   remaining, cur, todo, curUnit, stopErrors, sserr, retpc, services,
                   deferred, written, enabled, nservices>>

\* services.go:91-100: time.Sleep(killWait); sysd.Kill(serviceName, "KILL", ""); return
SSKillKill ==
    /\ pc = "ss_kill"
    /\ \E r \in CallResults :
        /\ Allowed(r)
        /\ faults' = Count(r)
        /\ log' = log \o <<Ev("Sleep", NoUnit, "killWait", ""),
                           Ev("Kill", ServiceName(cur), "KILL", r)>>
    /\ sserr' = StopServiceReturn(stopErrors)
    /\ pc' = retpc
    /\ UNCHANGED <<apps, reason, hostBefore, otherVars, disk, enabledUnits, err, i,
                   remaining, cur, todo, curUnit, stopErrors, retpc, services, deferred,
                   written, enabled, nservices>>

\* ------------------------------------------------------------ StopServices
\* variant: the service file is not looked for
SkipStopNoFileCheck(a) == ~IsService(a)

\* services.go:321: not a service, or no service file on disk
SkipStop(a) == ~IsService(a) \/ ServiceName(a) \notin disk
\* services.go:326-333: refresh of an application with refresh-mode endure
SkipEndure(a) == reason = "refresh" /\ apps[a].endure
\* variant: the kill-all test without its negation
EnsureKilledInverted(a) == reason = "remove" /\ apps[a].killAll

\* services.go:345
EnsureKilled(a) == reason = "remove" /\ ~apps[a].killAll

\* services.go:318-338: the next application of the list
StopServicesNext ==
    /\ pc = "stop_loop"
    /\ i <= MaxApps
    /\ IF SkipStop(i) \/ SkipEndure(i)
       THEN /\ i' = i + 1
            /\ UNCHANGED <<pc, cur, todo, stopErrors, retpc>>
       ELSE /\ SSEnter(i, "stop_after")
            /\ i' = i
    /\ UNCHANGED <<apps, reason, hostBefore, otherVars, disk, enabledUnits, log, err,
                   remaining, curUnit, sserr, services, deferred, written, enabled,
                   nservices, faults>>

\* services.go:339-352: after stopService returned
StopServicesAfter ==
    /\ pc = "stop_after"
    /\ IF sserr # Nil
       THEN /\ err' = sserr
            /\ pc' = "done"
            /\ i' = i
       ELSE /\ err' = err
            /\ IF EnsureKilled(i)
               THEN pc' = "stop_term" /\ i' = i
               ELSE pc' = "stop_loop" /\ i' = i + 1
    /\ UNCHANGED <<apps, reason, hostBefore, otherVars, disk, enabledUnits, log, remaining,
                   cur, todo, curUnit, stopErrors, sserr, retpc, services, deferred,
                   written, enabled, nservices, faults>>

\* services.go:349: sysd.Kill(app.ServiceName(), "TERM", "all")
StopServicesKillTerm ==
    /\ pc = "stop_term"
    /\ \E r \in CallResults :
        /\ Allowed(r)
        /\ faults' = Count(r)
        /\ log' = Append(log, Ev("Kill", ServiceName(i), "TERM all", r))
    /\ pc' = "stop_kill"
    /\ UNCHANGED <<apps, reason, hostBefore, otherVars, disk, enabledUnits, err, i,
                   remaining, cur, todo, curUnit, stopErrors, sserr, retpc, services,
                   deferred, written, enabled, nservices>>

\* services.go:350-351: time.Sleep(killWait); sysd.Kill(app.ServiceName(), "KILL", "")
StopServicesKillKill ==
    /\ pc = "stop_kill"
    /\ \E r \in CallResults :
        /\ Allowed(r)
        /\ faults' = Count(r)
        /\ log' = log \o <<Ev("Sleep", NoUnit, "killWait", ""),
                           Ev("Kill", ServiceName(i), "KILL", r)>>
    /\ pc' = "stop_loop"
    /\ i' = i + 1
    /\ UNCHANGED <<apps, reason, hostBefore, otherVars, disk, enabledUnits, err, remaining,
                   cur, todo, curUnit, stopErrors, sserr, retpc, services, deferred,
                   written, enabled, nservices>>

\* services.go:355: return nil
StopServicesReturn ==
    /\ pc = "stop_loop"
    /\ i > MaxApps
    /\ pc' = "done"
    /\ err' = Nil
    /\ UNCHANGED <<apps, reason, hostBefore, otherVars, disk, enabledUnits, log, i,
                   remaining, cur, todo, curUnit, stopErrors, sserr, retpc, services,
                   deferred, written, enabled, nservices, faults>>

\* The descriptors StopServices reads: daemon, sockets, timer, and stop-mode only
\* when the reason is remove (line 345), refresh-mode only when it is refresh
\* (line 326).  A field the call never reads keeps its default.
StopConfigs(rsn) ==
    {NonService} \cup
    [daemon : {TRUE}, nsockets : 0..MaxSockets, timer : BOOLEAN, valid : {TRUE},
     timerOK : {TRUE}, disabled : {FALSE},
     killAll : IF rsn = "remove" THEN BOOLEAN ELSE {TRUE},
     endure : IF rsn = "refresh" THEN BOOLEAN ELSE {FALSE}]

\* a service without its service file is skipped before any other field is read
Bare == [daemon |-> TRUE, nsockets |-> 0, timer |-> FALSE, valid |-> TRUE, timerOK |-> TRUE,
         disabled |-> FALSE, killAll |-> TRUE, endure |-> FALSE]

StopReasons == {"refresh", "remove", "disable"}

\* ServicesEnableState, genServiceFile, generateOnCalendarSchedules: not called
NoQuery == snapSvcsState = <<>> /\ result = <<>>
NoRender == appInfo = <<>> /\ content = <<>>
NoWeekSpan == week = <<>> /\ weekday = 0 /\ out = <<>> /\ days = <<>>
NoClockSpan == span = <<>> /\ startTimes = <<>>
NoCalendar == NoWeekSpan /\ NoClockSpan
NoSchedule == schedule = <<>> /\ sched = 0 /\ calendarEvents = <<>>

\* the locals of an operation that has not started, and the host state it is called in
Locals ==
    /\ log = <<>>
    /\ err = Nil
    /\ i = 1
    /\ remaining = AppIds
    /\ cur = 0
    /\ todo = {}
    /\ curUnit = NoUnit
    /\ stopErrors = <<>>
    /\ sserr = Nil
    /\ retpc = ""
    /\ services = <<>>
    /\ deferred = <<>>
    /\ written = <<>>
    /\ enabled = <<>>
    /\ nservices = 0
    /\ faults = 0
    /\ diskBefore = disk
    /\ enabledBefore = enabledUnits

\* a call StopServices(apps, reason, inter, tm); any of the services may be installed
InitStop ==
    /\ reason \in StopReasons
    /\ apps \in [AppIds -> StopConfigs(reason)]
    /\ \E inst \in SUBSET {a \in AppIds : apps[a].daemon} :
        /\ \A a \in AppIds : (apps[a].daemon /\ a \notin inst) => apps[a] = Bare
        /\ disk = UNION {AllUnits(a) : a \in inst}
        /\ enabledUnits = {}
    /\ pc = "stop_loop"
    /\ Locals
    /\ NoQuery /\ NoRender /\ NoCalendar /\ NoSchedule

NextStop ==
    \/ StopServicesNext
    \/ StopServicesAfter
    \/ StopServicesKillTerm
    \/ StopServicesKillKill
    \/ StopServicesReturn
    \/ SSStopSocket
    \/ SSStopTimer
    \/ SSStopService
    \/ SSKillTerm
    \/ SSKillKill

SpecStop == InitStop /\ [][NextStop]_vars

\* ----------------------------------------------------------- StartServices
\* services.go:137: neither socket- nor timer-activated
IsPlain(a) == apps[a].nsockets = 0 /\ ~HasTimer(a)
\* variant: no cleanup is deferred
DeferCleanupNone(ds, a) == ds
\* variant: the deferred closures share the loop variable, so all see the latest app
DeferCleanupCaptured(ds, a) == [k \in 1..(Len(ds) + 1) |-> a]

\* services.go:116-135: the cleanup deferred for app a, run last-registered first
DeferCleanup(ds, a) == Append(ds, a)
\* variant: the service is queued whether enabled or not
QueueServiceAlways(svcs, name, isEnabled) == Append(svcs, name)
\* variant: the service is put at the front of the queue
QueueServiceFront(svcs, name, isEnabled) == IF isEnabled THEN <<name>> \o svcs ELSE svcs

\* services.go:147-149: the enabled plain service is queued for the second pass
QueueService(svcs, name, isEnabled) == IF isEnabled THEN Append(svcs, name) ELSE svcs

\* where the per-application pass goes after the sockets of a
StartAfterSockets(a) == IF HasTimer(a) THEN "start_timer_enable" ELSE "start_loop"
StartFirst(a) ==
    IF IsPlain(a) THEN "start_isenabled"
    ELSE IF SocketUnits(a) # {} THEN "start_sock_enable"
    ELSE StartAfterSockets(a)

\* variant: the first pass ends after the first application
FirstPassDoneEarly(k) == k > 1

\* services.go:110: the range over apps has visited every application
FirstPassDone(k) == k > MaxApps

\* services.go:110-137: the next application of the list; a service gets its cleanup
StartServicesNext ==
    /\ pc = "start_loop"
    /\ ~FirstPassDone(i)
    /\ IF ~IsService(i)
       THEN /\ i' = i + 1
            /\ UNCHANGED <<pc, cur, todo, deferred>>
       ELSE /\ deferred' = DeferCleanup(deferred, i)
            /\ cur' = i
            /\ todo' = SocketUnits(i)
            /\ pc' = StartFirst(i)
            /\ i' = i
    /\ UNCHANGED <<apps, reason, hostBefore, otherVars, disk, enabledUnits, log, err,
                   remaining, curUnit, stopErrors, sserr, retpc, services, written, enabled,
                   nservices, faults>>

\* services.go:142-150: sysd.IsEnabled(app.ServiceName())
StartServicesIsEnabled ==
    /\ pc = "start_isenabled"
    /\ \E r \in CallResults :
        /\ Allowed(r)
        /\ faults' = Count(r)
        /\ LET isEnabled == ServiceName(cur) \in enabledUnits
               e == Ev("IsEnabled", ServiceName(cur), "",
                       IF Bad(r) THEN r ELSE IF isEnabled THEN "true" ELSE "false")
           IN /\ log' = Append(log, e)
              /\ IF Bad(r)
                 THEN /\ err' = e
                      /\ pc' = "start_rollback"
                      /\ UNCHANGED <<services, i>>
                 ELSE /\ services' = QueueService(services, ServiceName(cur), isEnabled)
                      /\ pc' = "start_loop"
                      /\ i' = i + 1
                      /\ err' = err
    /\ UNCHANGED <<apps, reason, hostBefore, otherVars, disk, enabledUnits, remaining, cur,
                   todo, curUnit, stopErrors, sserr, retpc, deferred, written, enabled,
                   nservices>>

\* services.go:152-157: sysd.Enable of one socket unit
StartServicesEnableSocket ==
    /\ pc = "start_sock_enable"
    /\ \E u \in todo, r \in CallResults :
        /\ Allowed(r)
        /\ faults' = Count(r)
        /\ log' = Append(log, Ev("Enable", u, "", r))
        /\ IF Bad(r)
           THEN /\ err' = Ev("Enable", u, "", r)
                /\ pc' = "start_rollback"
                /\ UNCHANGED <<enabledUnits, curUnit>>
           ELSE /\ enabledUnits' = enabledUnits \cup {u}
                /\ curUnit' = u
                /\ pc' = "start_sock_start"
                /\ err' = err
    /\ UNCHANGED <<apps, reason, hostBefore, otherVars, disk, i, remaining, cur, todo,
                   stopErrors, sserr, retpc, services, deferred, written, enabled,
                   nservices>>

\* services.go:159-165: sysd.Start of the socket unit just enabled
StartServicesStartSocket ==
    /\ pc = "start_sock_start"
    /\ \E r \in CallResults :
        /\ Allowed(r)
        /\ faults' = Count(r)
        /\ log' = Append(log, Ev("Start", curUnit, "", r))
        /\ IF Bad(r)
           THEN /\ err' = Ev("Start", curUnit, "", r)
                /\ pc' = "start_rollback"
                /\ UNCHANGED <<todo, i>>
           ELSE /\ todo' = todo \ {curUnit}
                /\ pc' = IF todo \ {curUnit} # {} THEN "start_sock_enable"
                         ELSE StartAfterSockets(cur)
                /\ i' = IF todo \ {curUnit} = {} /\ ~HasTimer(cur) THEN i + 1 ELSE i
                /\ err' = err
    /\ UNCHANGED <<apps, reason, hostBefore, otherVars, disk, enabledUnits, remaining, cur,
                   curUnit, stopErrors, sserr, retpc, services, deferred, written, enabled,
                   nservices>>

\* services.go:167-172: sysd.Enable of the timer unit
StartServicesEnableTimer ==
    /\ pc = "start_timer_enable"
    /\ \E r \in CallResults :
        /\ Allowed(r)
        /\ faults' = Count(r)
        /\ log' = Append(log, Ev("Enable", TimerUnit(cur), "", r))
        /\ IF Bad(r)
           THEN /\ err' = Ev("Enable", TimerUnit(cur), "", r)
                /\ pc' = "start_rollback"
                /\ UNCHANGED enabledUnits
           ELSE /\ enabledUnits' = enabledUnits \cup {TimerUnit(cur)}
                /\ pc' = "start_timer_start"
                /\ err' = err
    /\ UNCHANGED <<apps, reason, hostBefore, otherVars, disk, i, remaining, cur, todo,
                   curUnit, stopErrors, sserr, retpc, services, deferred, written, enabled,
                   nservices>>

\* services.go:174-180: sysd.Start of the timer unit
StartServicesStartTimer ==
    /\ pc = "start_timer_start"
    /\ \E r \in CallResults :
        /\ Allowed(r)
        /\ faults' = Count(r)
        /\ log' = Append(log, Ev("Start", TimerUnit(cur), "", r))
        /\ IF Bad(r)
           THEN /\ err' = Ev("Start", TimerUnit(cur), "", r)
                /\ pc' = "start_rollback"
                /\ i' = i
           ELSE /\ pc' = "start_loop"
                /\ i' = i + 1
                /\ err' = err
    /\ UNCHANGED <<apps, reason, hostBefore, otherVars, disk, enabledUnits, remaining, cur,
                   todo, curUnit, stopErrors, sserr, retpc, services, deferred, written,
                   enabled, nservices>>

\* services.go:181-183: the per-application pass is over
StartServicesSecondPass ==
    /\ pc = "start_loop"
    /\ FirstPassDone(i)
    /\ pc' = "start_services"
    /\ i' = 1
    /\ UNCHANGED <<apps, reason, hostBefore, otherVars, disk, enabledUnits, log, err,
                   remaining, cur, todo, curUnit, stopErrors, sserr, retpc, services,
                   deferred, written, enabled, nservices, faults>>

\* services.go:183-197: sysd.Start(srv) of the next queued service
StartServicesStartService ==
    /\ pc = "start_services"
    /\ i <= Len(services)
    /\ \E r \in CallResults :
        /\ Allowed(r)
        /\ faults' = Count(r)
        /\ log' = Append(log, Ev("Start", services[i], "", r))
        /\ IF Bad(r)
           THEN /\ err' = Ev("Start", services[i], "", r)
                /\ pc' = "start_rollback"
                /\ i' = i
           ELSE /\ pc' = "start_services"
                /\ i' = i + 1
                /\ err' = err
    /\ UNCHANGED <<apps, reason, hostBefore, otherVars, disk, enabledUnits, remaining, cur,
                   todo, curUnit, stopErrors, sserr, retpc, services, deferred, written,
                   enabled, nservices>>

\* services.go:199, 117-119: return nil; every deferred cleanup returns at once
StartServicesReturn ==
    /\ pc = "start_services"
    /\ i > Len(services)
    /\ pc' = "done"
    /\ err' = Nil
    /\ UNCHANGED <<apps, reason, hostBefore, otherVars, disk, enabledUnits, log, i,
                   remaining, cur, todo, curUnit, stopErrors, sserr, retpc, services,
                   deferred, written, enabled, nservices, faults>>

\* services.go:116-120: the next deferred cleanup calls stopService, or all have run
StartServicesCleanup ==
    /\ pc = "start_rollback"
    /\ IF deferred = <<>>
       THEN /\ pc' = "done"
            /\ UNCHANGED <<cur, todo, stopErrors, retpc>>
       ELSE SSEnter(deferred[Len(deferred)], "start_rb_after")
    /\ UNCHANGED <<apps, reason, hostBefore, otherVars, disk, enabledUnits, log, err, i,
                   remaining, curUnit, sserr, services, deferred, written, enabled,
                   nservices, faults>>

\* the cleanup of cur has run: the one registered before it is next
CleanupDone ==
    /\ deferred' = SubSeq(deferred, 1, Len(deferred) - 1)
    /\ pc' = "start_rollback"

\* services.go:120-123: a stopService error goes to Notify
StartServicesCleanupStopped ==
    /\ pc = "start_rb_after"
    /\ log' = IF sserr # Nil
              THEN Append(log, Ev("Notify", ServiceName(cur),
                                  "While trying to stop previously started service", ""))
              ELSE log
    /\ todo' = SocketUnits(cur)
    /\ IF SocketUnits(cur) # {}
       THEN pc' = "start_rb_sock" /\ UNCHANGED deferred
       ELSE IF HasTimer(cur)
       THEN pc' = "start_rb_timer" /\ UNCHANGED deferred
       ELSE CleanupDone
    /\ UNCHANGED <<apps, reason, hostBefore, otherVars, disk, enabledUnits, err, i,
                   remaining, cur, curUnit, stopErrors, sserr, retpc, services, written,
                   enabled, nservices, faults>>

\* services.go:123-128: sysd.Disable of one socket unit, its error to Notify
StartServicesCleanupSocket ==
    /\ pc = "start_rb_sock"
    /\ \E u \in todo, r \in CallResults :
        /\ Allowed(r)
        /\ faults' = Count(r)
        /\ log' = IF Bad(r)
                  THEN log \o <<Ev("Disable", u, "", r),
                                Ev("Notify", u,
                                   "While trying to disable previously enabled socket service", "")>>
                  ELSE Append(log, Ev("Disable", u, "", r))
        /\ enabledUnits' = IF Bad(r) THEN enabledUnits ELSE enabledUnits \ {u}
        /\ todo' = todo \ {u}
        /\ IF todo \ {u} # {}
           THEN pc' = "start_rb_sock" /\ UNCHANGED deferred
           ELSE IF HasTimer(cur)
           THEN pc' = "start_rb_timer" /\ UNCHANGED deferred
           ELSE CleanupDone
    /\ UNCHANGED <<apps, reason, hostBefore, otherVars, disk, err, i, remaining, cur,
                   curUnit, stopErrors, sserr, retpc, services, written, enabled,
                   nservices>>

\* services.go:129-134: sysd.Disable of the timer unit, its error to Notify
StartServicesCleanupTimer ==
    /\ pc = "start_rb_timer"
    /\ \E r \in CallResults :
        /\ Allowed(r)
        /\ faults' = Count(r)
        /\ log' = IF Bad(r)
                  THEN log \o <<Ev("Disable", TimerUnit(cur), "", r),
                                Ev("Notify", TimerUnit(cur),
                                   "While trying to disable previously enabled timer service", "")>>
                  ELSE Append(log, Ev("Disable", TimerUnit(cur), "", r))
        /\ enabledUnits' = IF Bad(r) THEN enabledUnits ELSE enabledUnits \ {TimerUnit(cur)}
    /\ CleanupDone
    /\ UNCHANGED <<apps, reason, hostBefore, otherVars, disk, err, i, remaining, cur, todo,
                   curUnit, stopErrors, sserr, retpc, services, written, enabled,
                   nservices>>

\* the descriptors StartServices reads: daemon, sockets, timer
StartConfigs ==
    {NonService} \cup
    [daemon : {TRUE}, nsockets : 0..MaxSockets, timer : BOOLEAN, valid : {TRUE},
     timerOK : {TRUE}, disabled : {FALSE}, killAll : {TRUE}, endure : {FALSE}]

\* a call StartServices(apps, inter, tm) after the units were added: the unit files
\* are on disk, and any of the plain services may be enabled
InitStart ==
    /\ apps \in [AppIds -> StartConfigs]
    /\ reason = ""
    /\ disk = UNION {AllUnits(a) : a \in {b \in AppIds : apps[b].daemon}}
    /\ enabledUnits \in SUBSET {ServiceName(a) : a \in {b \in AppIds : apps[b].daemon /\ IsPlain(b)}}
    /\ pc = "start_loop"
    /\ Locals
    /\ NoQuery /\ NoRender /\ NoCalendar /\ NoSchedule

NextStart ==
    \/ StartServicesNext
    \/ StartServicesIsEnabled
    \/ StartServicesEnableSocket
    \/ StartServicesStartSocket
    \/ StartServicesEnableTimer
    \/ StartServicesStartTimer
    \/ StartServicesSecondPass
    \/ StartServicesStartService
    \/ StartServicesReturn
    \/ StartServicesCleanup
    \/ StartServicesCleanupStopped
    \/ StartServicesCleanupSocket
    \/ StartServicesCleanupTimer
    \/ SSStopSocket
    \/ SSStopTimer
    \/ SSStopService
    \/ SSKillTerm
    \/ SSKillKill

SpecStart == InitStart /\ [][NextStart]_vars

\* ---------------------------------------------------------- AddSnapServices
\* variant: a failure of the final reload leaves the units in place
RollbackSkipsReload(e) == e # Nil /\ e.op # "DaemonReload"

\* services.go:223-225: the deferred rollback runs for every non-nil error returned
RollbackRuns(e) == e # Nil
\* variant: only the service unit file is recorded
RecordWrittenServiceOnly(w, u) == IF u.kind = "service" THEN Append(w, u) ELSE w

\* services.go:257, 269, 282: written = append(written, path)
RecordWritten(w, u) == Append(w, u)
\* variant: the unit enabled is not recorded
RecordEnabledNone(en, u) == en

\* services.go:301: enabled = append(enabled, svcName)
RecordEnabled(en, u) == Append(en, u)
\* variant: only a timer counts as activation on demand
ActivatedOnDemandTimerOnly(a) == HasTimer(a)

\* services.go:285: socket or timer activated, nothing of it is enabled here
ActivatedOnDemand(a) == HasTimer(a) \/ apps[a].nsockets # 0
\* variant: the keep-disabled list is not consulted
KeepDisabledNever(a) == FALSE

\* services.go:293: strutil.ListContains(disabledSvcs, app.Name)
KeepDisabled(a) == apps[a].disabled
\* services.go:236, 304: a reload only when a file was written
ReloadNeeded(w) == Len(w) > 0

\* services.go:226-240: where the deferred rollback starts
AddUndoAfterRemove == IF ReloadNeeded(written) THEN "add_rb_reload" ELSE "done"
AddUndoAfterDisable == IF Len(written) > 0 THEN "add_rb_remove" ELSE AddUndoAfterRemove
AddUndoFirst == IF Len(enabled) > 0 THEN "add_rb_disable" ELSE AddUndoAfterDisable

\* return e: the deferred function sees the error
AddReturn(e) ==
    /\ err' = e
    /\ i' = 1
    /\ pc' = IF RollbackRuns(e) THEN AddUndoFirst ELSE "done"

\* where the loop body goes once the unit files of a are written
AddAfterFiles(a) ==
    IF ActivatedOnDemand(a) \/ KeepDisabled(a) THEN "add_loop" ELSE "add_enable"
AddAfterSockets(a) == IF HasTimer(a) THEN "add_timer" ELSE AddAfterFiles(a)
AddAfterService(a) == IF SocketUnits(a) # {} THEN "add_write_socket" ELSE AddAfterSockets(a)

\* variant: the descriptor is not validated
ValidateAppSkipped(a) == TRUE

\* services.go:60-62: snap.ValidateApp(appInfo) == nil
ValidateApp(a) == apps[a].valid

\* services.go:243-251: the next application of s.Apps (a map: any order);
\* generateSnapServiceFile validates it
AddNext ==
    /\ pc = "add_loop"
    /\ \E a \in remaining :
        /\ remaining' = remaining \ {a}
        /\ IF ~IsService(a)
           THEN UNCHANGED <<pc, err, i, cur, todo>>
           ELSE IF ~ValidateApp(a)
           THEN /\ AddReturn(Ev("ValidateApp", ServiceName(a), "", "fail"))
                /\ UNCHANGED <<cur, todo>>
           ELSE /\ cur' = a
                /\ todo' = SocketUnits(a)
                /\ pc' = "add_write_service"
                /\ UNCHANGED <<err, i>>
    /\ UNCHANGED <<apps, reason, hostBefore, otherVars, disk, enabledUnits, log, curUnit,
                   stopErrors, sserr, retpc, services, deferred, written, enabled,
                   nservices, faults>>

\* one osutil.AtomicWriteFile of the unit file of u, then on to position next
AddWrite(u, next) ==
    \E r \in CallResults :
        /\ Allowed(r)
        /\ faults' = Count(r)
        /\ log' = Append(log, Ev("Write", u, "", r))
        /\ IF Bad(r)
           THEN /\ AddReturn(Ev("Write", u, "", r))
                /\ UNCHANGED <<disk, written>>
           ELSE /\ disk' = disk \cup {u}
                /\ written' = RecordWritten(written, u)
                /\ pc' = next
                /\ UNCHANGED <<err, i>>

\* services.go:252-257: the service unit file
AddWriteService ==
    /\ pc = "add_write_service"
    /\ AddWrite(ServiceName(cur), AddAfterService(cur))
    /\ UNCHANGED <<apps, reason, hostBefore, otherVars, enabledUnits, remaining, cur, todo,
                   curUnit, stopErrors, sserr, retpc, services, deferred, enabled,
                   nservices>>

\* services.go:260-270: one socket unit file (socketFiles is a map: any order)
AddWriteSocket ==
    /\ pc = "add_write_socket"
    /\ \E u \in todo :
        /\ AddWrite(u, IF todo \ {u} # {} THEN "add_write_socket" ELSE AddAfterSockets(cur))
        /\ todo' = todo \ {u}
    /\ UNCHANGED <<apps, reason, hostBefore, otherVars, enabledUnits, remaining, cur,
                   curUnit, stopErrors, sserr, retpc, services, deferred, enabled,
                   nservices>>

\* services.go:272-283: generateSnapTimerFile parses the schedule; the timer unit file
AddWriteTimer ==
    /\ pc = "add_timer"
    /\ IF ~apps[cur].timerOK
       THEN /\ AddReturn(Ev("ParseSchedule", TimerUnit(cur), "", "fail"))
            /\ UNCHANGED <<log, disk, written, faults>>
       ELSE AddWrite(TimerUnit(cur), AddAfterFiles(cur))
    /\ UNCHANGED <<apps, reason, hostBefore, otherVars, enabledUnits, remaining, cur, todo,
                   curUnit, stopErrors, sserr, retpc, services, deferred, enabled,
                   nservices>>

\* services.go:298-301: sysd.Enable(svcName)
AddEnable ==
    /\ pc = "add_enable"
    /\ \E r \in CallResults :
        /\ Allowed(r)
        /\ faults' = Count(r)
        /\ log' = Append(log, Ev("Enable", ServiceName(cur), "", r))
        /\ IF Bad(r)
           THEN /\ AddReturn(Ev("Enable", ServiceName(cur), "", r))
                /\ UNCHANGED <<enabledUnits, enabled>>
           ELSE /\ enabledUnits' = enabledUnits \cup {ServiceName(cur)}
                /\ enabled' = RecordEnabled(enabled, ServiceName(cur))
                /\ pc' = "add_loop"
                /\ UNCHANGED <<err, i>>
    /\ UNCHANGED <<apps, reason, hostBefore, otherVars, disk, remaining, cur, todo, curUnit,
                   stopErrors, sserr, retpc, services, deferred, written, nservices>>

\* services.go:304-310: the final sysd.DaemonReload(), then return
AddReload ==
    /\ pc = "add_loop"
    /\ remaining = {}
    /\ IF ReloadNeeded(written)
       THEN \E r \in CallResults :
            /\ Allowed(r)
            /\ faults' = Count(r)
            /\ log' = Append(log, Ev("DaemonReload", NoUnit, "", r))
            /\ AddReturn(IF Bad(r) THEN Ev("DaemonReload", NoUnit, "", r) ELSE Nil)
       ELSE /\ AddReturn(Nil)
            /\ UNCHANGED <<log, faults>>
    /\ UNCHANGED <<apps, reason, hostBefore, otherVars, disk, enabledUnits, remaining, cur,
                   todo, curUnit, stopErrors, sserr, retpc, services, deferred, written,
                   enabled, nservices>>

\* services.go:226-230: sysd.Disable of the next unit of enabled, its error to Notify
AddUndoDisable ==
    /\ pc = "add_rb_disable"
    /\ \E r \in CallResults :
        /\ Allowed(r)
        /\ faults' = Count(r)
        /\ log' = IF Bad(r)
                  THEN log \o <<Ev("Disable", enabled[i], "", r),
                                Ev("Notify", enabled[i], "while trying to disable", "")>>
                  ELSE Append(log, Ev("Disable", enabled[i], "", r))
        /\ enabledUnits' = IF Bad(r) THEN enabledUnits ELSE enabledUnits \ {enabled[i]}
    /\ IF i < Len(enabled)
       THEN i' = i + 1 /\ pc' = pc
       ELSE i' = 1 /\ pc' = AddUndoAfterDisable
    /\ UNCHANGED <<apps, reason, hostBefore, otherVars, disk, err, remaining, cur, todo,
                   curUnit, stopErrors, sserr, retpc, services, deferred, written, enabled,
                   nservices>>

\* services.go:231-235: os.Remove of the next file of written, its error to Notify
AddUndoRemove ==
    /\ pc = "add_rb_remove"
    /\ \E r \in CallResults :
        /\ Allowed(r)
        /\ faults' = Count(r)
        /\ log' = IF Bad(r)
                  THEN log \o <<Ev("Remove", written[i], "", r),
                                Ev("Notify", written[i], "while trying to remove", "")>>
                  ELSE Append(log, Ev("Remove", written[i], "", r))
        /\ disk' = IF Bad(r) THEN disk ELSE disk \ {written[i]}
    /\ IF i < Len(written)
       THEN i' = i + 1 /\ pc' = pc
       ELSE i' = 1 /\ pc' = AddUndoAfterRemove
    /\ UNCHANGED <<apps, reason, hostBefore, otherVars, enabledUnits, err, remaining, cur,
                   todo, curUnit, stopErrors, sserr, retpc, services, deferred, written,
                   enabled, nservices>>

\* services.go:236-240: sysd.DaemonReload() of the rollback, its error to Notify
AddUndoReload ==
    /\ pc = "add_rb_reload"
    /\ \E r \in CallResults :
        /\ Allowed(r)
        /\ faults' = Count(r)
        /\ log' = IF Bad(r)
                  THEN log \o <<Ev("DaemonReload", NoUnit, "", r),
                                Ev("Notify", NoUnit, "while trying to perform systemd daemon-reload", "")>>
                  ELSE Append(log, Ev("DaemonReload", NoUnit, "", r))
    /\ pc' = "done"
    /\ UNCHANGED <<apps, reason, hostBefore, otherVars, disk, enabledUnits, err, i,
                   remaining, cur, todo, curUnit, stopErrors, sserr, retpc, services,
                   deferred, written, enabled, nservices>>

\* The descriptors AddSnapServices reads.  An invalid application is rejected before
\* another field is read; the schedule is parsed only when there is a timer; the
\* disabledSvcs list is consulted only for a service with neither socket nor timer.
AddConfigs ==
    {NonService} \cup
    {c \in [daemon : {TRUE}, nsockets : 0..MaxSockets, timer : BOOLEAN, valid : BOOLEAN,
            timerOK : BOOLEAN, disabled : BOOLEAN, killAll : {TRUE}, endure : {FALSE}] :
        /\ ~c.valid => (c.nsockets = 0 /\ ~c.timer /\ ~c.disabled)
        /\ ~c.timer => c.timerOK
        /\ (c.timer \/ c.nsockets # 0) => ~c.disabled}

\* the units StartServices enables for a service, or AddSnapServices for a plain one
BootUnits(a) ==
    IF apps[a].nsockets = 0 /\ ~apps[a].timer THEN {ServiceName(a)}
    ELSE AllUnits(a) \ {ServiceName(a)}

\* a call AddSnapServices(s, disabledSvcs, inter): on install no unit of the snap
\* exists, on update those of any of its services may exist and be enabled
InitAdd ==
    /\ apps \in [AppIds -> AddConfigs]
    /\ reason = ""
    /\ \E inst \in SUBSET {a \in AppIds : apps[a].daemon} :
        /\ disk = UNION {AllUnits(a) : a \in inst}
        /\ enabledUnits = UNION {BootUnits(a) : a \in inst}
    /\ pc = "add_loop"
    /\ Locals
    /\ NoQuery /\ NoRender /\ NoCalendar /\ NoSchedule

NextAdd ==
    \/ AddNext
    \/ AddWriteService
    \/ AddWriteSocket
    \/ AddWriteTimer
    \/ AddEnable
    \/ AddReload
    \/ AddUndoDisable
    \/ AddUndoRemove
    \/ AddUndoReload

SpecAdd == InitAdd /\ [][NextAdd]_vars

\* ------------------------------------------------------- RemoveSnapServices
\* variant: the service file is not looked for
SkipRemoveNoFileCheck(a) == ~IsService(a)

\* services.go:385: not a service, or no service file on disk
SkipRemove(a) == ~IsService(a) \/ ServiceName(a) \notin disk
\* variant: only a Disable error of the service unit is returned
DisableErrorReturnedServiceOnly(kind) == kind = "service"

\* services.go:395-397, 408-410, 417-419: a Disable error of a unit of this kind is returned
DisableErrorReturned(kind) == kind \in {"socket", "timer", "service"}
\* services.go:399, 412, 421: err != nil && !os.IsNotExist(err) is logged, never returned
RemoveErrorLogged(r) == r = "fail"

RemoveAfterSockets(a) == IF HasTimer(a) THEN "rm_disable_timer" ELSE "rm_disable_service"
RemoveFirst(a) == IF SocketUnits(a) # {} THEN "rm_disable_socket" ELSE RemoveAfterSockets(a)

\* services.go:384-390: the next application of s.Apps (a map: any order)
RemoveNext ==
    /\ pc = "rm_loop"
    /\ \E a \in remaining :
        /\ remaining' = remaining \ {a}
        /\ IF SkipRemove(a)
           THEN UNCHANGED <<pc, cur, todo, nservices>>
           ELSE /\ nservices' = nservices + 1
                /\ cur' = a
                /\ todo' = SocketUnits(a)
                /\ pc' = RemoveFirst(a)
    /\ UNCHANGED <<apps, reason, hostBefore, otherVars, disk, enabledUnits, log, err, i,
                   curUnit, stopErrors, sserr, retpc, services, deferred, written, enabled,
                   faults>>

\* sysd.Disable(u), then on to position next
RemoveDisable(u, next) ==
    \E r \in CallResults :
        /\ Allowed(r)
        /\ faults' = Count(r)
        /\ log' = Append(log, Ev("Disable", u, "", r))
        /\ IF Bad(r) /\ DisableErrorReturned(u.kind)
           THEN /\ err' = Ev("Disable", u, "", r)
                /\ pc' = "done"
                /\ UNCHANGED <<enabledUnits, curUnit>>
           ELSE /\ enabledUnits' = IF Bad(r) THEN enabledUnits ELSE enabledUnits \ {u}
                /\ curUnit' = u
                /\ pc' = next
                /\ err' = err

\* the results os.Remove can have for the unit file of u
RemoveResults(u) == IF u \in disk THEN {"ok", "fail"} ELSE {"notexist", "fail"}

\* os.Remove(path) of the unit file of curUnit, then on to position next
RemoveFile(next) ==
    \E r \in RemoveResults(curUnit) :
        /\ Allowed(r)
        /\ faults' = Count(r)
        /\ log' = IF RemoveErrorLogged(r)
                  THEN log \o <<Ev("Remove", curUnit, "", r),
                                Ev("Noticef", curUnit, "Failed to remove", "")>>
                  ELSE Append(log, Ev("Remove", curUnit, "", r))
        /\ disk' = IF r = "ok" THEN disk \ {curUnit} ELSE disk
        /\ pc' = next

\* services.go:392-397: Disable of one socket unit
RemoveDisableSocket ==
    /\ pc = "rm_disable_socket"
    /\ \E u \in todo : RemoveDisable(u, "rm_remove_socket")
    /\ UNCHANGED <<apps, reason, hostBefore, otherVars, disk, i, remaining, cur, todo,
                   stopErrors, sserr, retpc, services, deferred, written, enabled,
                   nservices>>

\* services.go:399-401: os.Remove of the socket file
RemoveRemoveSocket ==
    /\ pc = "rm_remove_socket"
    /\ RemoveFile(IF todo \ {curUnit} # {} THEN "rm_disable_socket" ELSE RemoveAfterSockets(cur))
    /\ todo' = todo \ {curUnit}
    /\ UNCHANGED <<apps, reason, hostBefore, otherVars, enabledUnits, err, i, remaining,
                   cur, curUnit, stopErrors, sserr, retpc, services, deferred, written,
                   enabled, nservices>>

\* services.go:404-410: Disable of the timer unit
RemoveDisableTimer ==
    /\ pc = "rm_disable_timer"
    /\ RemoveDisable(TimerUnit(cur), "rm_remove_timer")
    /\ UNCHANGED <<apps, reason, hostBefore, otherVars, disk, i, remaining, cur, todo,
                   stopErrors, sserr, retpc, services, deferred, written, enabled,
                   nservices>>

\* services.go:412-414: os.Remove of the timer file
RemoveRemoveTimer ==
    /\ pc = "rm_remove_timer"
    /\ RemoveFile("rm_disable_service")
    /\ UNCHANGED <<apps, reason, hostBefore, otherVars, enabledUnits, err, i, remaining,
                   cur, todo, curUnit, stopErrors, sserr, retpc, services, deferred,
                   written, enabled, nservices>>

\* services.go:417-419: Disable of the service unit
RemoveDisableService ==
    /\ pc = "rm_disable_service"
    /\ RemoveDisable(ServiceName(cur), "rm_remove_service")
    /\ UNCHANGED <<apps, reason, hostBefore, otherVars, disk, i, remaining, cur, todo,
                   stopErrors, sserr, retpc, services, deferred, written, enabled,
                   nservices>>

\* services.go:421-423: os.Remove of the service file
RemoveRemoveService ==
    /\ pc = "rm_remove_service"
    /\ RemoveFile("rm_loop")
    /\ UNCHANGED <<apps, reason, hostBefore, otherVars, enabledUnits, err, i, remaining,
                   cur, todo, curUnit, stopErrors, sserr, retpc, services, deferred,
                   written, enabled, nservices>>

\* variant: the reload is made whether or not a service was found
RemoveReloadAlways(n) == TRUE

\* services.go:428: only reload if we actually had services
RemoveReloadNeeded(n) == n > 0

\* services.go:427-434: the reload when a service was found, then return
RemoveReload ==
    /\ pc = "rm_loop"
    /\ remaining = {}
    /\ IF RemoveReloadNeeded(nservices)
       THEN \E r \in CallResults :
            /\ Allowed(r)
            /\ faults' = Count(r)
            /\ log' = Append(log, Ev("DaemonReload", NoUnit, "", r))
            /\ err' = IF Bad(r) THEN Ev("DaemonReload", NoUnit, "", r) ELSE Nil
       ELSE /\ err' = Nil
            /\ UNCHANGED <<log, faults>>
    /\ pc' = "done"
    /\ UNCHANGED <<apps, reason, hostBefore, otherVars, disk, enabledUnits, i, remaining,
                   cur, todo, curUnit, stopErrors, sserr, retpc, services, deferred,
                   written, enabled, nservices>>

\* the descriptors RemoveSnapServices reads: daemon, sockets, timer
RemoveConfigs == StartConfigs

\* a call RemoveSnapServices(s, inter): any of the services may be installed, with
\* its unit files on disk and its boot units enabled
InitRemove ==
    /\ apps \in [AppIds -> RemoveConfigs]
    /\ reason = ""
    /\ \E inst \in SUBSET {a \in AppIds : apps[a].daemon} :
        /\ \A a \in AppIds : (apps[a].daemon /\ a \notin inst) => apps[a] = Bare
        /\ disk = UNION {AllUnits(a) : a \in inst}
        /\ enabledUnits = UNION {BootUnits(a) : a \in inst}
    /\ pc = "rm_loop"
    /\ Locals
    /\ NoQuery /\ NoRender /\ NoCalendar /\ NoSchedule

NextRemove ==
    \/ RemoveNext
    \/ RemoveDisableSocket
    \/ RemoveRemoveSocket
    \/ RemoveDisableTimer
    \/ RemoveRemoveTimer
    \/ RemoveDisableService
    \/ RemoveRemoveService
    \/ RemoveReload

SpecRemove == InitRemove /\ [][NextRemove]_vars

\* the entry that separates the calls of a first and a second RemoveSnapServices
SecondCall == Ev("call", NoUnit, "RemoveSnapServices", "")

\* services.go:380-382: RemoveSnapServices is called again on the same package
\* after the first call returned nil; nservices and the range over s.Apps start afresh
RemoveAgain ==
    /\ pc = "done"
    /\ err = Nil
    /\ \A p \in 1..Len(log) : log[p] # SecondCall
    /\ log' = Append(log, SecondCall)
    /\ nservices' = 0
    /\ remaining' = AppIds
    /\ pc' = "rm_loop"
    /\ UNCHANGED <<apps, reason, hostBefore, otherVars, disk, enabledUnits, err, i, cur,
                   todo, curUnit, stopErrors, sserr, retpc, services, deferred, written,
                   enabled, faults>>

NextRemoveTwice ==
    \/ NextRemove
    \/ RemoveAgain

SpecRemoveTwice == InitRemove /\ [][NextRemoveTwice]_vars

\* ------------------------------------------------------ ServicesEnableState
\* the map value nil
NilMap == [nil |-> TRUE, states |-> <<>>]
\* a map value that is not nil
Map(m) == [nil |-> FALSE, states |-> m]
\* variant: the entries collected so far are returned with the error
ErrorResultPartial(m) == Map(m)

\* services.go:371: return nil, err
ErrorResult(m) == NilMap
\* services.go:373: snapSvcsState[name] = state
SetState(m, a, state) == [b \in DOMAIN m \cup {a} |-> IF b = a THEN state ELSE m[b]]

\* services.go:366-373: the next application of s.Apps (a map: any order); a service
\* is asked for with sysd.IsEnabled
ServicesEnableStateNext ==
    /\ pc = "query_loop"
    /\ \E a \in remaining :
        /\ remaining' = remaining \ {a}
        /\ IF ~IsService(a)
           THEN UNCHANGED <<log, err, pc, faults, snapSvcsState, result>>
           ELSE \E r \in CallResults :
                /\ Allowed(r)
                /\ faults' = Count(r)
                /\ LET state == ServiceName(a) \in enabledUnits
                       e == Ev("IsEnabled", ServiceName(a), "",
                               IF Bad(r) THEN r ELSE IF state THEN "true" ELSE "false")
                   IN /\ log' = Append(log, e)
                      /\ IF Bad(r)
                         THEN /\ err' = e
                              /\ result' = ErrorResult(snapSvcsState)
                              /\ pc' = "done"
                              /\ UNCHANGED snapSvcsState
                         ELSE /\ snapSvcsState' = SetState(snapSvcsState, a, state)
                              /\ UNCHANGED <<err, pc, result>>
    /\ UNCHANGED <<apps, reason, hostBefore, renderVars, calendarVars, scheduleVars,
                   disk, enabledUnits,
                   i, cur, todo, curUnit, stopErrors, sserr, retpc, services, deferred,
                   written, enabled, nservices>>

\* services.go:375: return snapSvcsState, nil
ServicesEnableStateReturn ==
    /\ pc = "query_loop"
    /\ remaining = {}
    /\ result' = Map(snapSvcsState)
    /\ err' = Nil
    /\ pc' = "done"
    /\ UNCHANGED <<apps, reason, hostBefore, renderVars, calendarVars, scheduleVars,
                   disk, enabledUnits,
                   log, i, remaining, cur, todo, curUnit, stopErrors, sserr, retpc,
                   services, deferred, written, enabled, nservices, faults, snapSvcsState>>

\* a call ServicesEnableState(s, inter): the units of any of the services may be
\* installed, and any of the service units enabled
InitServicesEnableState ==
    /\ apps \in [AppIds -> StartConfigs]
    /\ reason = ""
    /\ \E inst \in SUBSET {a \in AppIds : apps[a].daemon} :
        /\ disk = UNION {AllUnits(a) : a \in inst}
        /\ enabledUnits \in SUBSET {ServiceName(a) : a \in inst}
    /\ pc = "query_loop"
    /\ Locals
    /\ snapSvcsState = <<>>
    /\ result = NilMap
    /\ NoRender /\ NoCalendar /\ NoSchedule

NextServicesEnableState ==
    \/ ServicesEnableStateNext
    \/ ServicesEnableStateReturn

SpecServicesEnableState == InitServicesEnableState /\ [][NextServicesEnableState]_vars

\* ------------------------------------------------------------ genServiceFile
\* timeout.DefaultTimeout, in seconds
DefaultTimeout == 30

\* The fields of snap.AppInfo the modelled part of the service template reads.
RenderConfigs ==
    [valid : BOOLEAN, daemon : {"simple", "oneshot"}, stopCommand : BOOLEAN,
     nsockets : 0..MaxSockets, timer : BOOLEAN, killAll : BOOLEAN,
     stopTimeout : 0..MaxTimeout, startTimeout : 0..MaxTimeout]

\* one line of a unit file: "key=value", the value a text or a number of seconds;
\* a section header "[key]" has neither
Line(key, value, seconds) == [key |-> key, value |-> value, seconds |-> seconds]
\* {{- if cond}} line {{- end}}
If(cond, line) == IF cond THEN <<line>> ELSE <<>>
\* variant: the stop timeout of the descriptor, zero or not
serviceStopTimeoutAsIs(app) == app.stopTimeout

\* services.go:51-57: zero becomes timeout.DefaultTimeout
serviceStopTimeout(app) ==
    IF app.stopTimeout = 0 THEN DefaultTimeout ELSE app.stopTimeout

\* services.go:517-526: RemainAfterExit=yes for a oneshot daemon with a stop command
Remain(app) == IF app.daemon = "oneshot" /\ app.stopCommand THEN "yes" ELSE ""
\* services.go:527-530: KillMode=process unless the stop mode kills all
KillMode(app) == IF ~app.killAll THEN "process" ELSE ""
\* services.go:499: {{- if not .App.Sockets}}
InstallSection(app) == app.nsockets = 0

\* services.go:449-504, 532-574: the template executed on wrapperData.  Of the
\* lines rendered the model keeps the section headers and the lines that depend
\* on the fields of RenderConfigs.
genServiceFile(app) ==
    LET StopTimeout == serviceStopTimeout(app)
        StartTimeout == app.startTimeout
    IN <<Line("[Unit]", "", 0), Line("[Service]", "", 0)>>
       \o If(app.stopCommand, Line("ExecStop", "LauncherStopCommand", 0))
       \o If(StopTimeout # 0, Line("TimeoutStopSec", "", StopTimeout))
       \o If(StartTimeout # 0, Line("TimeoutStartSec", "", StartTimeout))
       \o <<Line("Type", app.daemon, 0)>>
       \o If(Remain(app) # "", Line("RemainAfterExit", Remain(app), 0))
       \o If(KillMode(app) # "", Line("KillMode", KillMode(app), 0))
       \o If(InstallSection(app), Line("[Install]", "", 0))
       \o If(InstallSection(app), Line("WantedBy", "ServicesTarget", 0))

\* services.go:59-65: generateSnapServiceFile(app): validation, then the rendering
generateSnapServiceFile ==
    /\ pc = "render"
    /\ IF ~appInfo.valid
       THEN /\ err' = Ev("ValidateApp", NoUnit, "", "fail")
            /\ UNCHANGED content
       ELSE /\ content' = genServiceFile(appInfo)
            /\ err' = Nil
    /\ pc' = "done"
    /\ UNCHANGED <<apps, reason, hostBefore, queryVars, calendarVars, scheduleVars,
                   disk, enabledUnits,
                   log, i, remaining, cur, todo, curUnit, stopErrors, sserr, retpc,
                   services, deferred, written, enabled, nservices, faults, appInfo>>

\* a call generateSnapServiceFile(app) for any descriptor; no package is installed
InitRender ==
    /\ apps = [a \in AppIds |-> NonService]
    /\ reason = ""
    /\ disk = {}
    /\ enabledUnits = {}
    /\ pc = "render"
    /\ Locals
    /\ NoQuery /\ NoCalendar /\ NoSchedule
    /\ appInfo \in RenderConfigs
    /\ content = <<>>

NextRender ==
    \/ generateSnapServiceFile

SpecRender == InitRender /\ [][NextRender]_vars

\* ------------------------------------- generateOnCalendarSchedules: week spans
\* time.Weekday: Sunday = 0 ... Saturday = 6
Weekdays == 0..6
\* time.Weekday(d).String()[0:3]
Abbrev(d) == <<"Sun", "Mon", "Tue", "Wed", "Thu", "Fri", "Sat">>[d + 1]
\* timeutil.EveryWeek and timeutil.LastWeek, the values of Pos that are not the
\* number of a week of the month
EveryWeek == 0
LastWeek == 5

\* timeutil.Week: a weekday and its position in the month
Week(d, pos) == [weekday |-> d, pos |-> pos]
\* timeutil.WeekSpan: every week, the last week, or the N-th to the M-th week
WeekSpans ==
    {[start |-> Week(d, n), end |-> Week(e, m)] :
        <<d, e, n, m>> \in {q \in Weekdays \X Weekdays \X (0..LastWeek) \X (0..LastWeek) :
            \/ q[3] \in {EveryWeek, LastWeek} /\ q[4] = q[3]
            \/ q[3] \notin {EveryWeek, LastWeek} /\ q[4] \notin {EveryWeek, LastWeek}
               /\ q[3] <= q[4]}}

\* services.go:702: the loop condition w%7 != (end + 1)
MoreWeekdays(wd, end) == (wd % 7) # (end + 1)

\* services.go:702-704: one iteration of the loop of makeAbbrevWeekdays
makeAbbrevWeekdaysStep ==
    /\ pc = "abbrev_loop"
    /\ MoreWeekdays(weekday, week.end.weekday)
    /\ Len(out) < MaxOut
    /\ out' = Append(out, Abbrev(weekday % 7))
    /\ weekday' = weekday + 1
    /\ UNCHANGED <<apps, reason, hostBefore, operationVars, queryVars, renderVars,
                   scheduleVars, pc, week,
                   days, span, startTimes>>

\* services.go:703: append finds no room for out; the program is ended
makeAbbrevWeekdaysOutOfMemory ==
    /\ pc = "abbrev_loop"
    /\ MoreWeekdays(weekday, week.end.weekday)
    /\ Len(out) = MaxOut
    /\ pc' = "out_of_memory"
    /\ UNCHANGED <<apps, reason, hostBefore, operationVars, queryVars, renderVars,
                   scheduleVars,
                   calendarVars>>

\* services.go:702, 705: the loop ends, out is returned
makeAbbrevWeekdaysReturn ==
    /\ pc = "abbrev_loop"
    /\ ~MoreWeekdays(weekday, week.end.weekday)
    /\ pc' = "week_days"
    /\ UNCHANGED <<apps, reason, hostBefore, operationVars, queryVars, renderVars,
                   scheduleVars,
                   calendarVars>>

\* variant: the weekday filter is kept whenever start and end weekday are equal
SingleDaySameWeekday(wk) == wk.start.weekday = wk.end.weekday

\* services.go:735: week.Start != week.End compares weekday and position
SingleDay(wk) == wk.start = wk.end

\* one entry of days: "<filter> <date>", the filter the comma-joined weekdays (none
\* when empty), the date "*-*-*", "*-*~7/1" or "*-*-<from>..<to>/1"
Day(filter, date, from, to) == [filter |-> filter, date |-> date, from |-> from, to |-> to]

\* services.go:716-743: the entry of days for the week span wk, abbrev the joined
\* result of makeAbbrevWeekdays
DayOf(wk, abbrev) ==
    IF wk.start.pos = EveryWeek THEN Day(abbrev, "*-*-*", 0, 0)
    ELSE IF wk.start.pos = LastWeek THEN Day(abbrev, "*-*~7/1", 0, 0)
    ELSE LET startDay == (wk.start.pos - 1) * 7 + 1
             endDay == wk.end.pos * 7
         IN IF ~SingleDay(wk)
            THEN Day(<<>>, "*-*-from..to/1", startDay, endDay)
            ELSE Day(abbrev, "*-*-from..to/1", startDay, endDay)

\* services.go:716-744: days = append(days, ...)
generateOnCalendarSchedulesDays ==
    /\ pc = "week_days"
    /\ days' = Append(days, DayOf(week, out))
    /\ pc' = "done"
    /\ UNCHANGED <<apps, reason, hostBefore, operationVars, queryVars, renderVars,
                   scheduleVars, week,
                   weekday, out, span, startTimes>>

\* generateOnCalendarSchedules reaches a week span of a schedule: w := start
InitWeekSpan ==
    /\ apps = [a \in AppIds |-> NonService]
    /\ reason = ""
    /\ disk = {}
    /\ enabledUnits = {}
    /\ pc = "abbrev_loop"
    /\ Locals
    /\ NoQuery /\ NoRender /\ NoClockSpan /\ NoSchedule
    /\ week \in WeekSpans
    /\ weekday = week.start.weekday
    /\ out = <<>>
    /\ days = <<>>

NextWeekSpan ==
    \/ makeAbbrevWeekdaysStep
    \/ makeAbbrevWeekdaysOutOfMemory
    \/ makeAbbrevWeekdaysReturn
    \/ generateOnCalendarSchedulesDays

SpecWeekSpan == InitWeekSpan /\ [][NextWeekSpan]_vars

\* ------------------------------------ generateOnCalendarSchedules: clock spans
\* time.Minute and time.Hour, in ticks
Minute == TicksPerMinute
Hour == 60 * Minute
\* timeutil.Clock: the time of day hh:mm, in ticks since 00:00
Clock(hh, mm) == hh * Hour + mm * Minute
\* the Hour field of a timeutil.Clock
HourOf(t) == t \div Hour
\* services.go:757: span.End.Sub(span.Start), negative when the span wraps (759)
Sub(t, u) == t - u
\* services.go:769: when.Add(d)
Add(t, d) == t + d

\* The expanded clock spans: a start of 09:00 or of 24:00, an end at most MaxWindow
\* minutes before or after it and not after 24:00, spread or not.
ClockSpans ==
    {sp \in [start : {Clock(9, 0), Clock(24, 0)}, end : 0..Clock(24, 0), spread : BOOLEAN] :
        /\ sp.end - sp.start <= MaxWindow * Minute
        /\ sp.start - sp.end <= MaxWindow * Minute}

\* services.go:757-768: the length the offset is drawn from
SpreadLength(sp) ==
    LET d == Sub(sp.end, sp.start)
        length == IF d < 0 THEN 0 - d ELSE d
    IN IF length > 5 * Minute THEN length - 5 * Minute ELSE length

\* services.go:771-776: 24:xx becomes 00:xx
FoldHour(t) == IF HourOf(t) = 24 THEN t - 24 * Hour ELSE t

\* services.go:755-778: the start time of the clock span, for a spread span the
\* start plus rand.Int63n(length), any value of 0..length-1
generateOnCalendarSchedulesStartTime ==
    /\ pc = "clock_span"
    /\ IF span.spread
       THEN /\ SpreadLength(span) > 0
            /\ \E offset \in 0..(SpreadLength(span) - 1) :
                  startTimes' = Append(startTimes, FoldHour(Add(span.start, offset)))
       ELSE startTimes' = Append(startTimes, FoldHour(span.start))
    /\ pc' = "done"
    /\ UNCHANGED <<apps, reason, hostBefore, operationVars, queryVars, renderVars,
                   scheduleVars, week,
                   weekday, out, days, span>>

\* services.go:769: rand.Int63n(n) panics when n <= 0
Int63nPanics ==
    /\ pc = "clock_span"
    /\ span.spread
    /\ SpreadLength(span) <= 0
    /\ pc' = "panic"
    /\ UNCHANGED <<apps, reason, hostBefore, operationVars, queryVars, renderVars,
                   scheduleVars,
                   calendarVars>>

\* generateOnCalendarSchedules reaches a clock span of a schedule
InitClockSpan ==
    /\ apps = [a \in AppIds |-> NonService]
    /\ reason = ""
    /\ disk = {}
    /\ enabledUnits = {}
    /\ pc = "clock_span"
    /\ Locals
    /\ NoQuery /\ NoRender /\ NoWeekSpan /\ NoSchedule
    /\ span \in ClockSpans
    /\ startTimes = <<>>

NextClockSpan ==
    \/ generateOnCalendarSchedulesStartTime
    \/ Int63nPanics

SpecClockSpan == InitClockSpan /\ [][NextClockSpan]_vars

\* ---------------------------------- generateOnCalendarSchedules: the schedule
\* sequences of at most n elements of S
SeqsUpTo(S, n) == UNION {[1..k -> S] : k \in 0..n}

\* The week spans of the schedules translated: Monday to Tuesday of every week, the
\* first Monday to the second Monday, Friday to Saturday of every week.
WeekSpanSamples ==
    {[start |-> Week(1, EveryWeek), end |-> Week(2, EveryWeek)],
     [start |-> Week(1, 1), end |-> Week(1, 2)],
     [start |-> Week(5, EveryWeek), end |-> Week(6, EveryWeek)]}
\* The expanded clock spans of the schedules translated: 24:00, a start spread over
\* 09:00-09:01, a start spread over 09:00-09:00.
ClockSpanSamples ==
    {[start |-> Clock(24, 0), end |-> Clock(24, 0), spread |-> FALSE],
     [start |-> Clock(9, 0), end |-> Clock(9, 1), spread |-> TRUE],
     [start |-> Clock(9, 0), end |-> Clock(9, 0), spread |-> TRUE]}
\* timeutil.Schedule: the week spans and the clock spans of a chunk, the clock
\* spans as ClockSpans() expands them
Schedules ==
    [weekSpans : SeqsUpTo(WeekSpanSamples, MaxSpans),
     clockSpans : SeqsUpTo(ClockSpanSamples, MaxSpans)]

\* services.go:700-706: whether the loop of makeAbbrevWeekdays ends before out
\* outgrows the memory
makeAbbrevWeekdaysReturns(start, end) ==
    \E n \in 0..MaxOut : ~MoreWeekdays(start + n, end)
\* services.go:700-706: the abbreviations of start, start+1, ... up to the first
\* weekday that ends the loop
makeAbbrevWeekdays(start, end) ==
    LET n == CHOOSE k \in 0..MaxOut :
                 /\ ~MoreWeekdays(start + k, end)
                 /\ \A j \in 0..(k - 1) : MoreWeekdays(start + j, end)
    IN [j \in 1..n |-> Abbrev((start + j - 1) % 7)]

\* services.go:714-744: days after the loop over sched.WeekSpans
WeekSpanDays(weekSpans) ==
    [k \in 1..Len(weekSpans) |->
        DayOf(weekSpans[k],
              makeAbbrevWeekdays(weekSpans[k].start.weekday, weekSpans[k].end.weekday))]

\* variant: a chunk without week spans is given no day
DaysOrDefaultNone(ds) == ds

\* services.go:746-749: without week spans the only day is "*-*-*"
DaysOrDefault(ds) == IF Len(ds) = 0 THEN <<Day(<<>>, "*-*-*", 0, 0)>> ELSE ds

\* services.go:785: fmt.Sprintf("%s %s", day, startTime)
CalendarEvent(day, startTime) == [day |-> day, startTime |-> startTime]

\* services.go:783-785: the inner loop, over startTimes from the k-th on
RECURSIVE AppendStartTimes(_, _, _, _)
AppendStartTimes(events, day, times, k) ==
    IF k > Len(times) THEN events
    ELSE AppendStartTimes(Append(events, CalendarEvent(day, times[k])), day, times, k + 1)

\* services.go:782-786: the outer loop, over days from the k-th on
RECURSIVE AppendDays(_, _, _, _)
AppendDays(events, ds, times, k) ==
    IF k > Len(ds) THEN events
    ELSE AppendDays(AppendStartTimes(events, ds[k], times, 1), ds, times, k + 1)

\* services.go:755-769: the offsets rand.Int63n may return for the clock spans,
\* none drawn (0) for a span that is not spread
Offsets(clockSpans) ==
    {o \in [1..Len(clockSpans) -> 0..(MaxWindow * Minute)] :
        \A k \in 1..Len(clockSpans) :
            IF clockSpans[k].spread THEN o[k] < SpreadLength(clockSpans[k]) ELSE o[k] = 0}

\* services.go:751-779: startTimes after the loop over sched.ClockSpans
ClockSpanStartTimes(clockSpans, o) ==
    [k \in 1..Len(clockSpans) |-> FoldHour(Add(clockSpans[k].start, o[k]))]

\* the chunk has a week span for which makeAbbrevWeekdays does not return
WeekSpansOutOfMemory(c) ==
    \E k \in 1..Len(c.weekSpans) :
        ~makeAbbrevWeekdaysReturns(c.weekSpans[k].start.weekday, c.weekSpans[k].end.weekday)
\* the chunk has a spread clock span rand.Int63n panics for
ClockSpansPanic(c) ==
    \E k \in 1..Len(c.clockSpans) :
        c.clockSpans[k].spread /\ SpreadLength(c.clockSpans[k]) <= 0

\* services.go:713-787: one chunk of the schedule is translated
generateOnCalendarSchedulesChunk ==
    /\ pc = "schedule_loop"
    /\ sched <= Len(schedule)
    /\ ~WeekSpansOutOfMemory(schedule[sched])
    /\ ~ClockSpansPanic(schedule[sched])
    /\ \E o \in Offsets(schedule[sched].clockSpans) :
          /\ days' = DaysOrDefault(WeekSpanDays(schedule[sched].weekSpans))
          /\ startTimes' = ClockSpanStartTimes(schedule[sched].clockSpans, o)
          /\ calendarEvents' = AppendDays(calendarEvents, days', startTimes', 1)
    /\ sched' = sched + 1
    /\ UNCHANGED <<apps, reason, hostBefore, operationVars, queryVars, renderVars, pc,
                   schedule, week, weekday, out, span>>

\* services.go:703, 717: makeAbbrevWeekdays outgrows the memory for a week span of
\* the chunk; the program is ended
generateOnCalendarSchedulesOutOfMemory ==
    /\ pc = "schedule_loop"
    /\ sched <= Len(schedule)
    /\ WeekSpansOutOfMemory(schedule[sched])
    /\ pc' = "out_of_memory"
    /\ UNCHANGED <<apps, reason, hostBefore, operationVars, queryVars, renderVars,
                   calendarVars, scheduleVars>>

\* services.go:769: rand.Int63n panics for a clock span of the chunk, the week
\* spans of the chunk translated
generateOnCalendarSchedulesPanics ==
    /\ pc = "schedule_loop"
    /\ sched <= Len(schedule)
    /\ ~WeekSpansOutOfMemory(schedule[sched])
    /\ ClockSpansPanic(schedule[sched])
    /\ days' = DaysOrDefault(WeekSpanDays(schedule[sched].weekSpans))
    /\ pc' = "panic"
    /\ UNCHANGED <<apps, reason, hostBefore, operationVars, queryVars, renderVars,
                   scheduleVars, week, weekday, out, span, startTimes>>

\* services.go:788: return calendarEvents
generateOnCalendarSchedulesReturn ==
    /\ pc = "schedule_loop"
    /\ sched > Len(schedule)
    /\ pc' = "done"
    /\ UNCHANGED <<apps, reason, hostBefore, operationVars, queryVars, renderVars,
                   calendarVars, scheduleVars>>

\* generateOnCalendarSchedules is called with a schedule of at most MaxChunks chunks
InitSchedule ==
    /\ apps = [a \in AppIds |-> NonService]
    /\ reason = ""
    /\ disk = {}
    /\ enabledUnits = {}
    /\ pc = "schedule_loop"
    /\ Locals
    /\ NoQuery /\ NoRender /\ NoCalendar
    /\ schedule \in SeqsUpTo(Schedules, MaxChunks)
    /\ sched = 1
    /\ calendarEvents = <<>>

NextSchedule ==
    \/ generateOnCalendarSchedulesChunk
    \/ generateOnCalendarSchedulesOutOfMemory
    \/ generateOnCalendarSchedulesPanics
    \/ generateOnCalendarSchedulesReturn

SpecSchedule == InitSchedule /\ [][NextSchedule]_vars

\* ------------------------------------------------- properties of StopServices
Pos == 1..Len(log)
Returned == pc = "done"
\* the positions of the outside calls made for application a
CallsFor(a) == {p \in Pos : log[p].unit.app = a}
IsStopOf(e, u) == e.op = "Stop" /\ e.unit = u
\* the application a returned error came from
FailedApp == err.unit.app
\* a Stop call that returned an error other than a timeout of the service unit
HardStopFailure(e) ==
    /\ e.op = "Stop"
    /\ \/ e.res = "fail"
       \/ e.res = "timeout" /\ e.unit.kind # "service"
\* the Stop of the service unit of a timed out
TimedOut(a) == \E p \in Pos : log[p] = Ev("Stop", Unit(a, "service", 0), "", "timeout")
\* the first failed Stop of a socket or timer unit of a, Nil when there is none
FirstAncillaryFailure(a) ==
    LET F == {p \in Pos : /\ HardStopFailure(log[p])
                          /\ log[p].unit.app = a
                          /\ log[p].unit.kind # "service"}
    IN IF F = {} THEN Nil ELSE log[CHOOSE p \in F : \A q \in F : p <= q]
\* Kill TERM of the whole unit, the grace wait, Kill KILL, as sent on remove
RemoveKillAt(a, p) ==
    /\ p + 2 <= Len(log)
    /\ log[p].op = "Kill" /\ log[p].unit = Unit(a, "service", 0) /\ log[p].arg = "TERM all"
    /\ log[p + 1].op = "Sleep"
    /\ log[p + 2].op = "Kill" /\ log[p + 2].unit = Unit(a, "service", 0)
    /\ log[p + 2].arg = "KILL"
RemoveKilled(a) == \E p \in Pos : RemoveKillAt(a, p)
\* what the claims call a stoppable application on remove
RemoveTarget(a) ==
    /\ apps[a].daemon
    /\ Unit(a, "service", 0) \in disk
    /\ ~apps[a].killAll

\* C7 as stated: on remove, every service with a service file and without kill-all
\* scope is sent TERM then KILL, whether its stop succeeded or failed.
C7_Original ==
    (Returned /\ reason = "remove") =>
        \A a \in AppIds : RemoveTarget(a) => RemoveKilled(a)

\* C7 amended: on remove, such an application is sent TERM (whole unit), the grace
\* wait and KILL exactly when its stopService call returned no error (the Stop
\* succeeded, or the service unit's Stop timed out and was escalated); when
\* stopService returns an error, StopServices returns it and sends neither signal.
C7_RemoveKillUnlessStopFailed ==
    (Returned /\ reason = "remove") =>
        \A a \in AppIds : RemoveTarget(a) =>
            (RemoveKilled(a) <=> (err = Nil \/ FailedApp > a))

C7_Witness ==
    /\ Returned /\ reason = "remove"
    /\ \E a \in AppIds : RemoveTarget(a) /\ TimedOut(a) /\ RemoveKilled(a)
    /\ \E b \in AppIds : RemoveTarget(b) /\ ~RemoveKilled(b) /\ err # Nil

\* C8 as stated: the value returned is the first failed Stop call of the whole
\* call, and nothing is called for a later application.
C8_Original ==
    Returned =>
        LET F == {p \in Pos : HardStopFailure(log[p])} IN
        /\ F # {} => err = log[CHOOSE p \in F : \A q \in F : p <= q]
        /\ err # Nil => \A b \in AppIds : b > FailedApp => CallsFor(b) = {}

\* C8 amended: StopServices aborts on the first application whose stopService
\* returns an error; the error is the service unit's Stop error when that Stop
\* failed other than by timeout, else the first failed Stop of its socket and timer
\* units; nothing is called for a later application.
C8_AbortOnFirst ==
    Returned =>
        /\ err = Nil => \A p \in Pos : ~HardStopFailure(log[p])
        /\ err # Nil =>
            /\ \A b \in AppIds : b > FailedApp => CallsFor(b) = {}
            /\ \A p \in Pos : (HardStopFailure(log[p]) => log[p].unit.app = FailedApp)
            /\ LET svc == Ev("Stop", Unit(FailedApp, "service", 0), "", "fail") IN
               IF \E p \in Pos : log[p] = svc
               THEN err = svc
               ELSE err = FirstAncillaryFailure(FailedApp)

C8_Witness ==
    /\ Returned /\ err # Nil
    /\ FailedApp = 1
    /\ FirstAncillaryFailure(1) # Nil
    /\ err # FirstAncillaryFailure(1)
    /\ apps[2].daemon /\ Unit(2, "service", 0) \in disk /\ ~(reason = "refresh" /\ apps[2].endure)

\* the escalation after a timeout of the service unit's Stop at position p
EscalatedAt(p) ==
    /\ p + 1 <= Len(log)
    /\ log[p + 1].op = "Notify" /\ log[p + 1].arg = "refused to stop, killing"
    /\ p + 2 <= Len(log) =>
        log[p + 2].op = "Kill" /\ log[p + 2].arg = "TERM" /\ log[p + 2].unit = log[p].unit
    /\ p + 3 <= Len(log) =>
        /\ log[p + 3].op = "Sleep"
        /\ p + 4 <= Len(log)
        /\ log[p + 4].op = "Kill" /\ log[p + 4].arg = "KILL" /\ log[p + 4].unit = log[p].unit
    /\ Returned => p + 4 <= Len(log)
ServiceTimeoutAt(p) ==
    log[p].op = "Stop" /\ log[p].unit.kind = "service" /\ log[p].res = "timeout"
\* escalation steps happen only after a timeout, and no error is a timeout or a Kill
EscalationOnlyOnTimeout ==
    /\ \A q \in Pos :
        (\/ log[q].op = "Notify" /\ log[q].arg = "refused to stop, killing"
         \/ log[q].op = "Kill" /\ log[q].arg = "TERM") =>
            \E p \in Pos : p < q /\ q <= p + 2 /\ ServiceTimeoutAt(p)
    /\ \A q \in Pos : (log[q].op = "Stop" /\ log[q].unit.kind = "service" /\ log[q].res = "fail")
                        => q = Len(log)
    /\ ~(err.op = "Stop" /\ err.unit.kind = "service" /\ err.res = "timeout")
    /\ err.op # "Kill"

\* C9 as stated: a timeout of the service unit's Stop is escalated (Notify, Kill
\* TERM, wait, Kill KILL), is not returned, and StopServices goes on to the next
\* application; another Stop error is not escalated.
C9_Original ==
    /\ \A p \in Pos : ServiceTimeoutAt(p) => EscalatedAt(p)
    /\ EscalationOnlyOnTimeout
    /\ Returned => \A a \in AppIds : TimedOut(a) => (err = Nil \/ FailedApp # a)

\* C9 amended: as stated, except that StopServices goes on to the next application
\* only when no Stop of a socket or timer unit of that application failed; when one
\* did, the escalation is still performed and the first such failure is returned.
C9_EscalateOnTimeout ==
    /\ \A p \in Pos : ServiceTimeoutAt(p) => EscalatedAt(p)
    /\ EscalationOnlyOnTimeout
    /\ Returned => \A a \in AppIds : TimedOut(a) =>
        IF FirstAncillaryFailure(a) = Nil
        THEN err = Nil \/ FailedApp > a
        ELSE err = FirstAncillaryFailure(a)

C9_Witness ==
    /\ Returned /\ err = Nil
    /\ TimedOut(1)
    /\ \E p \in Pos : log[p].op = "Kill" /\ log[p].arg = "KILL" /\ log[p].res = "fail"
                      /\ log[p].unit.app = 1
    /\ \E p \in Pos : IsStopOf(log[p], Unit(2, "service", 0))

\* an application StopServices is to leave alone
Skippable(a) ==
    \/ ~apps[a].daemon
    \/ Unit(a, "service", 0) \notin disk
    \/ reason = "refresh" /\ apps[a].endure

\* C10: nothing is called and nothing notified for an application that is not a
\* service, has no service file, or endures a refresh; it is never the source of the
\* error, and the applications after it are still stopped.
C10_SkippedUntouched ==
    /\ \A a \in AppIds : Skippable(a) => (CallsFor(a) = {} /\ FailedApp # a)
    /\ Returned => \A b \in AppIds :
        (~Skippable(b) /\ (err = Nil \/ b <= FailedApp)) =>
            \E p \in Pos : IsStopOf(log[p], Unit(b, "service", 0))

C10_Witness ==
    /\ Returned /\ err = Nil
    /\ reason = "refresh" /\ apps[1].daemon /\ Unit(1, "service", 0) \in disk /\ apps[1].endure
    /\ CallsFor(1) = {}
    /\ \E p \in Pos : IsStopOf(log[p], Unit(2, "service", 0))

\* ------------------------------------------------ properties of StartServices
IsStart(e) == e.op = "Start"
\* the Start calls made so far, in call order
StartCalls == SelectSeq(log, IsStart)
\* every application of the list is a service without socket and timer, and enabled
AllPlainEnabled ==
    \A a \in AppIds :
        /\ apps[a].daemon /\ apps[a].nsockets = 0 /\ ~apps[a].timer
        /\ Unit(a, "service", 0) \in enabledUnits

\* C3: for a list of enabled services without sockets and timers, the Start calls
\* are made one service at a time in the order of the list: the k-th Start call is
\* for the k-th service and is made only after the calls before it returned without
\* error, and a call that returns without error has started every service.
C3_StartOrder ==
    AllPlainEnabled =>
        /\ Len(StartCalls) <= MaxApps
        /\ \A k \in 1..Len(StartCalls) :
            /\ StartCalls[k].unit = Unit(k, "service", 0)
            /\ k < Len(StartCalls) => StartCalls[k].res = "ok"
        /\ (Returned /\ err = Nil) => Len(StartCalls) = MaxApps
        /\ Len(StartCalls) > 0 =>
            \A a \in AppIds : \E p \in Pos : log[p].op = "IsEnabled" /\ log[p].unit.app = a

C3_Witness ==
    /\ AllPlainEnabled
    /\ Returned /\ err = Nil
    /\ Len(StartCalls) = MaxApps
    /\ MaxApps >= 2

\* the position of the first failed call
FirstFailure == CHOOSE p \in Pos : Bad(log[p].res) /\ \A q \in Pos : Bad(log[q].res) => p <= q
\* the failure came from the second pass (the Start of a queued plain service)
InSecondPass == err.op = "Start" /\ err.unit.kind = "service"
\* a service whose processing had begun when the call failed
Begun(a) == apps[a].daemon /\ (InSecondPass \/ a <= FailedApp)
AttemptedAfter(f, op, u) == \E p \in Pos : p > f /\ log[p].op = op /\ log[p].unit = u
SocketsOf(a) == {Unit(a, "socket", k) : k \in 1..apps[a].nsockets}
TimersOf(a) == IF apps[a].timer THEN {Unit(a, "timer", 0)} ELSE {}

\* C4: when StartServices returns an error, it is the first failure (an IsEnabled,
\* Enable or Start call); after it, for every service whose processing had begun, a
\* Stop of each of its units and a Disable of each of its socket and timer units was
\* attempted; a failed Disable or a failed stop is followed by a Notify and changes
\* neither the remaining cleanup nor the error returned.
C4_CleanupOnFailure ==
    (Returned /\ err # Nil) =>
        /\ err = log[FirstFailure]
        /\ err.op \in {"IsEnabled", "Enable", "Start"}
        /\ \A a \in AppIds : Begun(a) =>
            /\ \A u \in {Unit(a, "service", 0)} \cup SocketsOf(a) \cup TimersOf(a) :
                AttemptedAfter(FirstFailure, "Stop", u)
            /\ \A u \in SocketsOf(a) \cup TimersOf(a) :
                AttemptedAfter(FirstFailure, "Disable", u)
        /\ \A p \in Pos :
            /\ (log[p].op = "Disable" /\ Bad(log[p].res)) =>
                (p < Len(log) /\ log[p + 1].op = "Notify" /\ log[p + 1].unit = log[p].unit)
            /\ HardStopFailure(log[p]) =>
                \E q \in Pos : /\ q > p
                               /\ log[q].op = "Notify"
                               /\ log[q].unit = Unit(log[p].unit.app, "service", 0)
                               /\ log[q].arg = "While trying to stop previously started service"

C4_Witness ==
    /\ Returned /\ err # Nil
    /\ InSecondPass
    /\ \A a \in AppIds : apps[a].daemon
    /\ \E a \in AppIds : apps[a].nsockets > 0
    /\ \E p \in Pos : p > FirstFailure /\ Bad(log[p].res) /\ log[p].op \in {"Disable", "Stop"}

\* ---------------------------------------------- properties of AddSnapServices
\* the units a call of the given kind succeeded on
Succeeded(op) == {log[p].unit : p \in {q \in Pos : log[q].op = op /\ log[q].res = "ok"}}
Attempted(op) == {log[p].unit : p \in {q \in Pos : log[q].op = op}}
Reloads == {p \in Pos : log[p].op = "DaemonReload"}
\* no compensating Disable and no file removal failed
CompensationSucceeded ==
    \A p \in Pos : log[p].op \in {"Disable", "Remove"} => log[p].res = "ok"

\* C1: when the write of a unit file fails and the compensating Disable and file
\* removals succeed, then at return no file written earlier in the call is on disk,
\* no unit enabled in the call is enabled, and DaemonReload was called iff a file
\* had been written before the failure.
C1_WriteFailureRollsBack ==
    (Returned /\ err.op = "Write" /\ CompensationSucceeded) =>
        /\ Succeeded("Write") \cap disk = {}
        /\ Succeeded("Enable") \cap enabledUnits = {}
        /\ (Reloads # {}) <=> (Succeeded("Write") # {})

C1_Witness ==
    /\ Returned /\ err.op = "Write" /\ CompensationSucceeded
    /\ Cardinality(Succeeded("Write")) >= 2
    /\ Succeeded("Enable") # {}
    /\ Reloads # {}

\* C2 as stated: when the final DaemonReload fails the error is returned and nothing
\* is rolled back: the files written and the units enabled stay, and no Disable and
\* no file removal is made.
C2_Original ==
    (Returned /\ err.op = "DaemonReload") =>
        /\ Succeeded("Write") \subseteq disk
        /\ Succeeded("Enable") \subseteq enabledUnits
        /\ Attempted("Disable") = {}
        /\ Attempted("Remove") = {}

\* C2 amended: when the final DaemonReload fails the call returns that reload error
\* and rolls back as for any other failure: Disable is attempted on every unit
\* enabled during the call, removal on every file written during it, and
\* DaemonReload a second time; a file whose removal succeeded is gone and a unit
\* whose Disable succeeded is no longer enabled.
C2_ReloadFailureRollsBack ==
    (Returned /\ err.op = "DaemonReload") =>
        /\ err = Ev("DaemonReload", NoUnit, "", "fail")
        /\ Attempted("Disable") = Succeeded("Enable")
        /\ Attempted("Remove") = Succeeded("Write")
        /\ Succeeded("Remove") \cap disk = {}
        /\ Succeeded("Disable") \cap enabledUnits = {}
        /\ Cardinality(Reloads) = 2

C2_Witness ==
    /\ Returned /\ err.op = "DaemonReload"
    /\ Cardinality(Succeeded("Write")) >= 2
    /\ Succeeded("Enable") # {}
    /\ Succeeded("Remove") = Succeeded("Write")

\* a service with a socket or a timer
OnDemand(a) == apps[a].daemon /\ (apps[a].nsockets > 0 \/ apps[a].timer)
\* the unit files of a were all written
FilesWritten(a) ==
    {Unit(a, "service", 0)} \cup SocketsOf(a) \cup TimersOf(a) \subseteq Succeeded("Write")

\* C5 as stated: each socket unit and the timer unit of a service with a socket or a
\* timer is enabled during Add and recorded in the enabled ledger, and its service
\* unit is never enabled.
C5_Original ==
    \A a \in AppIds : OnDemand(a) =>
        /\ Unit(a, "service", 0) \notin Attempted("Enable")
        /\ (FilesWritten(a) /\ Returned /\ err = Nil) =>
            \A u \in SocketsOf(a) \cup TimersOf(a) :
                /\ u \in Succeeded("Enable")
                /\ \E k \in 1..Len(enabled) : enabled[k] = u

\* C5 amended: for a service with a socket or a timer Add writes the unit files and
\* enables none of its units, neither a socket unit nor the timer unit nor the
\* service unit, and records none of them in the enabled ledger, so that a later
\* failure in the call disables none of them.
C5_OnDemandNotEnabled ==
    \A a \in AppIds : OnDemand(a) =>
        \A u \in {Unit(a, "service", 0)} \cup SocketsOf(a) \cup TimersOf(a) :
            /\ u \notin Attempted("Enable")
            /\ \A k \in 1..Len(enabled) : enabled[k] # u
            /\ u \notin Attempted("Disable")

C5_Witness ==
    /\ Returned /\ err # Nil
    /\ \E a \in AppIds : OnDemand(a) /\ apps[a].nsockets > 0 /\ apps[a].timer /\ FilesWritten(a)
    /\ Succeeded("Enable") # {}
    /\ Attempted("Disable") # {}

\* -------------------------------------------- properties of RemoveSnapServices
\* RemoveSnapServices found the service file of a and began to remove its units
Visited(a) == \E p \in Pos : log[p].unit.app = a
FailedDisable(p) == log[p].op = "Disable" /\ Bad(log[p].res)

\* C6 as stated: only a failure to disable the service unit aborts; after a failure
\* to disable or delete a socket or timer unit the service unit of the application
\* is still disabled and deleted.
C6_Original ==
    /\ Returned /\ err.op = "Disable" => err.unit.kind = "service"
    /\ Returned => \A p \in Pos :
        (Bad(log[p].res) /\ log[p].unit.kind \in {"socket", "timer"}) =>
            /\ Unit(log[p].unit.app, "service", 0) \in Attempted("Disable")
            /\ Unit(log[p].unit.app, "service", 0) \in Attempted("Remove")

\* C6 amended: a failure to delete a unit file (socket, timer or service) is logged
\* and does not abort: the remaining units of the application and the remaining
\* applications are still processed; a failure to disable any unit, a socket or
\* timer unit as well as the service unit, aborts immediately with that error.
C6_DisableFailureAborts ==
    /\ \A p \in Pos : FailedDisable(p) => (p = Len(log) /\ Returned /\ err = log[p])
    /\ \A p \in Pos : (log[p].op = "Remove" /\ log[p].res = "fail") =>
        (p < Len(log) /\ log[p + 1].op = "Noticef")
    /\ err.op # "Remove"
    /\ (Returned /\ ~\E p \in Pos : FailedDisable(p)) =>
        \A a \in AppIds : apps[a].daemon =>
            /\ Unit(a, "service", 0) \in disk => Visited(a)
            /\ Visited(a) =>
                \A u \in {Unit(a, "service", 0)} \cup SocketsOf(a) \cup TimersOf(a) :
                    u \in Succeeded("Disable") /\ u \in Attempted("Remove")

C6_Witness ==
    /\ Returned
    /\ \A a \in AppIds : Visited(a)
    /\ \E p \in Pos : /\ log[p].op = "Remove" /\ log[p].res = "fail"
                      /\ log[p].unit.kind \in {"socket", "timer"}
                      /\ \E q \in Pos : q > p /\ log[q].unit.app # log[p].unit.app
    /\ ~\E p \in Pos : FailedDisable(p)

\* ------------------------------------------- properties of RemoveSnapServices, twice
\* the position in the log where the second call begins (0: no second call yet)
SecondCallAt == IF \E p \in Pos : log[p].op = "call"
                THEN CHOOSE p \in Pos : log[p].op = "call"
                ELSE 0
\* the first call failed to delete the service file of some application
ServiceFileLeft ==
    \E p \in 1..SecondCallAt :
        log[p].op = "Remove" /\ log[p].unit.kind = "service" /\ log[p].res = "fail"
\* the second call found nothing, called nothing, deleted nothing and, once
\* returned, returned nil
SecondIsNoop ==
    /\ Len(log) = SecondCallAt
    /\ nservices = 0
    /\ Returned => err = Nil

ValidationFailed == err.op = "ValidateApp"

\* C12 as stated: when AddSnapServices returns the validation error of an
\* application, no unit file has been written and no Enable, Disable or
\* DaemonReload call has been made, whatever other applications the package has.
C12_Original == (Returned /\ ValidationFailed) => log = <<>>

\* C12, amended: AddSnapServices validates each service application when the loop
\* reaches it, before any I/O for that application: no file is written and no unit
\* is enabled or disabled for an application that fails validation, and a call on a
\* package with such an application returns an error.  Files written and units
\* enabled for valid applications visited earlier are undone by the rollback.
C12_InvalidAppUntouched ==
    /\ \A p \in Pos : log[p].unit.app \in AppIds => apps[log[p].unit.app].valid
    /\ (Returned /\ \E a \in AppIds : apps[a].daemon /\ ~apps[a].valid) => err # Nil
    /\ (Returned /\ ValidationFailed) =>
          \A p \in Pos : log[p].op = "Write" /\ log[p].res = "ok" =>
              \E q \in Pos : q > p /\ log[q].op = "Remove" /\ log[q].unit = log[p].unit

\* the validation error is returned after the files of a valid application, visited
\* before, were written and removed again
C12_Witness ==
    /\ Returned
    /\ ValidationFailed
    /\ \E p \in Pos : log[p].op = "Write" /\ log[p].res = "ok"
                      /\ log[p].unit.app # err.unit.app

\* ------------------------------------ properties of AddSnapServices: host state
\* C13 as stated: when AddSnapServices returns an error and every compensating
\* Disable and file removal succeeded, the unit files on disk and the enabled units
\* are those of before the call, also when units of the package were installed and
\* enabled before the call.
C13_Original ==
    (Returned /\ err # Nil /\ CompensationSucceeded) =>
        /\ disk = diskBefore
        /\ enabledUnits = enabledBefore

\* ------------------------------------------- properties of ServicesEnableState
\* C14: ServicesEnableState returns either, without error, a map with the enabled
\* flag of every service application and no entry for another application, or, with
\* the error of the first IsEnabled query that failed, no map at all (nil); no query
\* is made after a failed one and a partial map is never returned.
C14_AllOrNothing ==
    /\ \A p \in Pos : log[p].res = "fail" => p = Len(log)
    /\ Returned =>
        \/ /\ err = Nil
           /\ ~result.nil
           /\ DOMAIN result.states = {a \in AppIds : apps[a].daemon}
           /\ \A a \in DOMAIN result.states :
                 result.states[a] = ([app |-> a, kind |-> "service", idx |-> 0] \in enabledUnits)
        \/ /\ err # Nil
           /\ err = log[Len(log)]
           /\ err.op = "IsEnabled" /\ err.res = "fail"
           /\ result.nil
           /\ DOMAIN result.states = {}

\* a query failed after the flag of another service had been collected
C14_Witness ==
    /\ Returned
    /\ err # Nil
    /\ DOMAIN snapSvcsState # {}

\* --------------------------------------------------- properties of genServiceFile
\* the rendered unit has a line with this key
HasLine(key) == \E p \in 1..Len(content) : content[p].key = key
Rendered == pc = "done" /\ err = Nil /\ appInfo # <<>>

\* C15 as stated: the service unit rendered for a valid descriptor has no Install
\* section and no WantedBy line when the descriptor has a socket or a timer, and has
\* both when it has neither.
C15_Original ==
    Rendered =>
        /\ (appInfo.nsockets > 0 \/ appInfo.timer) =>
              ~HasLine("[Install]") /\ ~HasLine("WantedBy")
        /\ (appInfo.nsockets = 0 /\ ~appInfo.timer) =>
              HasLine("[Install]") /\ HasLine("WantedBy")

\* the number of seconds of the line with this key
SecondsOf(key) == content[CHOOSE p \in 1..Len(content) : content[p].key = key].seconds

\* C20 as stated: the rendered service unit has no TimeoutStopSec line when the stop
\* timeout of the descriptor is zero, and no TimeoutStartSec line when its start
\* timeout is zero.
C20_Original ==
    Rendered =>
        /\ appInfo.stopTimeout = 0 => ~HasLine("TimeoutStopSec")
        /\ appInfo.startTimeout = 0 => ~HasLine("TimeoutStartSec")

\* C20, amended: the TimeoutStartSec line is rendered exactly when the start timeout
\* of the descriptor is not zero, with that value; the TimeoutStopSec line is always
\* rendered, with the stop timeout of the descriptor or, when that is zero, with
\* the default timeout.
C20_TimeoutLines ==
    Rendered =>
        /\ HasLine("TimeoutStartSec") <=> appInfo.startTimeout # 0
        /\ HasLine("TimeoutStartSec") => SecondsOf("TimeoutStartSec") = appInfo.startTimeout
        /\ HasLine("TimeoutStopSec")
        /\ appInfo.stopTimeout # 0 => SecondsOf("TimeoutStopSec") = appInfo.stopTimeout
        /\ appInfo.stopTimeout = 0 => SecondsOf("TimeoutStopSec") = DefaultTimeout

\* a descriptor with neither timeout set has been rendered
C20_Witness ==
    /\ Rendered
    /\ appInfo.stopTimeout = 0
    /\ appInfo.startTimeout = 0

\* ------------------------------------- properties of RemoveSnapServices: reload
\* C19 as stated: whatever the outcome of the per-application steps, at return
\* RemoveSnapServices has called DaemonReload exactly once, after all applications
\* were processed, when a service with an existing service file was found, and not
\* at all when none was found.
C19_Original ==
    /\ \A p \in Reloads : p = Len(log) /\ remaining = {}
    /\ Returned => Cardinality(Reloads) = (IF nservices > 0 THEN 1 ELSE 0)

\* C19, amended: when no Disable failed, RemoveSnapServices calls DaemonReload
\* exactly once, as its last call after all applications were processed, if a
\* service with an existing service file was found, and not at all if none was
\* found; failed file removals do not change this.  When a Disable fails the call
\* returns that error without any reload.
C19_ReloadOnceUnlessAborted ==
    /\ \A p \in Reloads : p = Len(log) /\ remaining = {}
    /\ Returned =>
          Cardinality(Reloads) = (IF nservices > 0 /\ err.op # "Disable" THEN 1 ELSE 0)

\* the reload was made at the end of a call in which a file removal had failed
C19_Witness ==
    /\ Returned
    /\ Reloads # {}
    /\ \E p \in Pos : log[p].op = "Remove" /\ log[p].res = "fail"

\* --------------------------------- properties of generateOnCalendarSchedules
\* the entry of days has been emitted for a span from the N-th to the M-th week
NthWeekEmitted ==
    /\ pc = "done" /\ week # <<>> /\ Len(days) = 1
    /\ week.start.pos \notin {0, 5}
\* the day numbers (N-1)*7+1 and M*7
DaysOfSpan ==
    /\ days[1].date = "*-*-from..to/1"
    /\ days[1].from = (week.start.pos - 1) * 7 + 1
    /\ days[1].to = week.end.pos * 7
\* the weekday of a span as the claim writes it
LowerName(d) == <<"sun", "mon", "tue", "wed", "thu", "fri", "sat">>[d + 1]

\* C16 as stated: for a span from the N-th to the M-th week with equal start and end
\* weekday the entry is "<weekday> *-*-<startDay>..<endDay>/1" ("mon *-*-1..14/1"
\* for 1st-2nd Monday); the form without the weekday is emitted only when the
\* weekdays differ.
C16_Original ==
    NthWeekEmitted =>
        /\ DaysOfSpan
        /\ week.start.weekday = week.end.weekday =>
              days[1].filter = <<LowerName(week.start.weekday)>>
        /\ days[1].filter = <<>> => week.start.weekday # week.end.weekday

\* C16, amended: the entry for a span from the N-th to the M-th week keeps the
\* weekday, "<Weekday> *-*-<startDay>..<endDay>/1" with the capitalised three-letter
\* abbreviation, only when start and end are the same weekday of the same week
\* (N = M: 1st Monday gives "Mon *-*-1..7/1"); in every other case, also for equal
\* weekdays of different weeks (1st-2nd Monday), it is "*-*-<startDay>..<endDay>/1";
\* startDay = (N-1)*7+1 and endDay = M*7.
C16_FilterOnlySingleDay ==
    NthWeekEmitted =>
        /\ DaysOfSpan
        /\ (week.start.weekday = week.end.weekday /\ week.start.pos = week.end.pos) =>
              days[1].filter =
                  <<(<<"Sun", "Mon", "Tue", "Wed", "Thu", "Fri", "Sat">>)[week.start.weekday + 1]>>
        /\ (week.start.weekday # week.end.weekday \/ week.start.pos # week.end.pos) =>
              days[1].filter = <<>>

\* the entry for 1st Monday to 2nd Monday has been emitted
C16_Witness ==
    /\ NthWeekEmitted
    /\ week.start = [weekday |-> 1, pos |-> 1]
    /\ week.end = [weekday |-> 1, pos |-> 2]
    /\ days[1] = [filter |-> <<>>, date |-> "*-*-from..to/1", from |-> 1, to |-> 14]

\* C17 as stated: for every start and end weekday makeAbbrevWeekdays terminates and
\* returns the abbreviations of the weekdays from start to end inclusive, in order,
\* wrapping at the week boundary: between 1 and 7 entries.
C17_Original ==
    week # <<>> =>
        /\ Len(out) <= 7
        /\ pc # "out_of_memory"
        /\ pc \in {"week_days", "done"} =>
              LET s == week.start.weekday
                  n == ((week.end.weekday + 7 - s) % 7) + 1
              IN out = [k \in 1..n |->
                          (<<"Sun", "Mon", "Tue", "Wed", "Thu", "Fri", "Sat">>)[((s + k - 1) % 7) + 1]]

\* the window length L = |end - start| of the clock span, in ticks
WindowLength ==
    IF span.end >= span.start THEN span.end - span.start ELSE span.start - span.end
\* the offset of the start time produced from the start of the span, in ticks
OffsetProduced == (startTimes[1] + 24 * 60 * TicksPerMinute - span.start) % (24 * 60 * TicksPerMinute)

\* C18 as stated: for every spread clock span a start time is produced, and it is
\* the start plus an offset that is not negative and lies in [0, L - 5 minutes) when
\* the window length L is more than 5 minutes and in [0, L) when it is not.
C18_Original ==
    (span # <<>> /\ span.spread) =>
        /\ pc # "panic"
        /\ pc = "done" =>
              /\ Len(startTimes) = 1
              /\ OffsetProduced >= 0
              /\ OffsetProduced < (IF WindowLength > 5 * TicksPerMinute
                                   THEN WindowLength - 5 * TicksPerMinute
                                   ELSE WindowLength)

\* ----------------------------------- properties of AddSnapServices: compensation
\* the position of the failed call that made AddSnapServices return: the failed
\* call that no compensating Disable or removal precedes (0 when the error came
\* from validation or from the schedule, which call nothing)
OriginalFailureAt ==
    LET Forward(p) == /\ log[p].op \in {"Write", "Enable", "DaemonReload"}
                      /\ log[p].res = "fail"
                      /\ \A q \in 1..(p - 1) : log[q].op \notin {"Disable", "Remove"}
    IN IF \E p \in Pos : Forward(p) THEN CHOOSE p \in Pos : Forward(p) ELSE 0
\* a compensating call (made after the failure) with this operation on this unit
Compensated(op, u) == \E p \in Pos : p > OriginalFailureAt /\ log[p].op = op /\ log[p].unit = u
\* the compensating calls that failed
FailedCompensations ==
    {p \in Pos : p > OriginalFailureAt /\ log[p].res = "fail"
                 /\ log[p].op \in {"Disable", "Remove", "DaemonReload"}}

\* C21: when AddSnapServices fails, Disable is attempted on every unit it enabled
\* and removal on every file it wrote, also after some of these attempts failed;
\* each failed attempt is passed to Notify; the error returned is the original one,
\* never that of a compensating action.
C21_CompensationBestEffort ==
    (Returned /\ err # Nil) =>
        /\ \A p \in Pos : (log[p].op = "Enable" /\ log[p].res = "ok") =>
                              Compensated("Disable", log[p].unit)
        /\ \A p \in Pos : (log[p].op = "Write" /\ log[p].res = "ok") =>
                              Compensated("Remove", log[p].unit)
        /\ \A p \in FailedCompensations :
              p < Len(log) /\ log[p + 1].op = "Notify" /\ log[p + 1].unit = log[p].unit
        /\ err.op \in {"ValidateApp", "ParseSchedule", "Write", "Enable", "DaemonReload"}
        /\ IF OriginalFailureAt = 0
           THEN err.op \in {"ValidateApp", "ParseSchedule"}
           ELSE err = log[OriginalFailureAt]

\* a failed call after which one compensating Disable failed and the removals of
\* the files written were still attempted
C21_Witness ==
    /\ Returned /\ err # Nil
    /\ \E p \in FailedCompensations : log[p].op = "Disable"
    /\ \E p \in Pos : log[p].op = "Remove" /\ p > OriginalFailureAt
    /\ Cardinality(Succeeded("Write")) >= 2

\* -------------------------------------- properties of AddSnapServices: Enable
\* the service units AddSnapServices is to enable: of the services with neither
\* socket nor timer that the caller does not keep disabled
ToEnable ==
    {Unit(a, "service", 0) : a \in {b \in AppIds :
        apps[b].daemon /\ apps[b].nsockets = 0 /\ ~apps[b].timer /\ ~apps[b].disabled}}

\* C22: AddSnapServices calls Enable only on the service unit of a service with no
\* socket and no timer whose name is not in the keep-disabled set, and a call that
\* returns without error has called it on every such unit; the unit file of a
\* keep-disabled service is written all the same; Enable for an application comes
\* after the successful write of its unit file.
C22_EnableIffPlainAndWanted ==
    /\ Attempted("Enable") \subseteq ToEnable
    /\ \A p \in Pos : log[p].op = "Enable" =>
          \E q \in 1..(p - 1) : log[q] = Ev("Write", log[p].unit, "", "ok")
    /\ (Returned /\ err = Nil) =>
          /\ Attempted("Enable") = ToEnable
          /\ \A a \in AppIds : (apps[a].daemon /\ apps[a].disabled) =>
                Unit(a, "service", 0) \in Succeeded("Write")

\* a call returned without error that wrote the unit file of a keep-disabled service
\* and enabled another service
C22_Witness ==
    /\ Returned /\ err = Nil
    /\ \E a \in AppIds : apps[a].daemon /\ apps[a].disabled
                         /\ Unit(a, "service", 0) \in Succeeded("Write")
    /\ Succeeded("Enable") # {}

\* ------------------------------------- properties of StartServices: conditions
\* C23: StartServices calls Start on the service unit of an application only after
\* IsEnabled returned true for it, calls IsEnabled only for an application with no
\* socket and no timer, and calls Start on a socket or timer unit only after Enable
\* of that unit succeeded.
C23_StartOnlyEnabled ==
    /\ \A p \in Pos : (log[p].op = "Start" /\ log[p].unit.kind = "service") =>
          \E q \in 1..(p - 1) : log[q] = Ev("IsEnabled", log[p].unit, "", "true")
    /\ \A p \in Pos : log[p].op = "IsEnabled" =>
          /\ log[p].unit.kind = "service"
          /\ apps[log[p].unit.app].nsockets = 0
          /\ ~apps[log[p].unit.app].timer
    /\ \A p \in Pos : (log[p].op = "Start" /\ log[p].unit.kind \in {"socket", "timer"}) =>
          \E q \in 1..(p - 1) : log[q] = Ev("Enable", log[p].unit, "", "ok")

\* a call returned without error that started a socket unit and an enabled service
\* and left a service that is not enabled alone
C23_Witness ==
    /\ Returned /\ err = Nil
    /\ \E p \in Pos : log[p].op = "IsEnabled" /\ log[p].res = "false"
    /\ \E p \in Pos : log[p].op = "Start" /\ log[p].unit.kind \in {"socket", "timer"}

\* --------------------------------------- properties of StartServices: rollback
\* the socket and timer units of the services whose processing had begun
UnitsBegun == UNION {SocketsOf(a) \cup TimersOf(a) : a \in {b \in AppIds : Begun(b)}}

\* C24 as stated: when StartServices fails, its rollback calls Disable only on
\* socket and timer units that Enable succeeded on during the call.
C24_Original ==
    (Returned /\ err # Nil) => Attempted("Disable") \subseteq Succeeded("Enable")

\* C24, amended: when StartServices fails, its rollback calls Disable on every
\* socket unit and on the timer unit of every service whose processing had begun,
\* whether Enable succeeded on the unit, failed on it or was never called on it, and
\* on no other unit.
C24_DisableAllOfBegun ==
    (Returned /\ err # Nil) => Attempted("Disable") = UnitsBegun

\* the rollback has disabled a timer unit on which Enable was never called
C24_Witness ==
    /\ Returned /\ err # Nil
    /\ \E u \in Attempted("Disable") : u.kind = "timer" /\ u \notin Attempted("Enable")

\* ------------------------------------------ properties of StartServices: phases
\* the position of the first Start of a service unit (0: none yet)
FirstServiceStart ==
    IF \E p \in Pos : log[p].op = "Start" /\ log[p].unit.kind = "service"
    THEN CHOOSE p \in Pos : /\ log[p].op = "Start" /\ log[p].unit.kind = "service"
                            /\ \A q \in 1..(p - 1) :
                                  ~(log[q].op = "Start" /\ log[q].unit.kind = "service")
    ELSE 0
\* a call of the first phase: IsEnabled, or Enable or Start of a socket or timer unit
FirstPhase(e) ==
    \/ e.op = "IsEnabled"
    \/ e.op \in {"Enable", "Start"} /\ e.unit.kind \in {"socket", "timer"}

\* C26: StartServices runs in two phases: every IsEnabled and every Enable and Start
\* of a socket or timer unit, of every application of the list, is issued before the
\* first Start of a service unit; the first Start of a service unit comes after the
\* first phase has visited every application without a failure, so a failure in the
\* first phase means that no service unit is started.
C26_TwoPhases ==
    /\ \A p \in Pos : FirstPhase(log[p]) => (FirstServiceStart = 0 \/ p < FirstServiceStart)
    /\ FirstServiceStart > 0 =>
          /\ \A p \in 1..(FirstServiceStart - 1) : log[p].res # "fail"
          /\ \A a \in AppIds : \A u \in SocketsOf(a) \cup TimersOf(a) :
                \E p \in 1..(FirstServiceStart - 1) : log[p] = Ev("Start", u, "", "ok")
    /\ (\E p \in Pos : FirstPhase(log[p]) /\ log[p].res = "fail") => FirstServiceStart = 0

\* a service listed before a socket-activated application was started after the
\* socket unit of that application
C26_Witness ==
    /\ Returned /\ err = Nil
    /\ \E a, b \in AppIds :
        /\ a < b
        /\ apps[a].daemon /\ apps[a].nsockets = 0 /\ ~apps[a].timer
        /\ apps[b].daemon /\ apps[b].nsockets > 0
        /\ \E p, q \in Pos : /\ p < q
                             /\ log[p].op = "Start" /\ log[p].unit = Unit(b, "socket", 1)
                             /\ log[q].op = "Start" /\ log[q].unit = Unit(a, "service", 0)


\* ------------------------------- properties of generateOnCalendarSchedules (2)
\* D and T of the n-th chunk of the schedule
DaysOfChunk(n) == IF Len(schedule[n].weekSpans) = 0 THEN 1 ELSE Len(schedule[n].weekSpans)
TimesOfChunk(n) == Len(schedule[n].clockSpans)
\* the number of events of the chunks before the n-th
RECURSIVE EventsBefore(_)
EventsBefore(n) ==
    IF n <= 1 THEN 0 ELSE EventsBefore(n - 1) + DaysOfChunk(n - 1) * TimesOfChunk(n - 1)
\* the d-th day entry of the n-th chunk
DayEntry(n, d) ==
    LET ws == schedule[n].weekSpans
    IN IF Len(ws) = 0 THEN Day(<<>>, "*-*-*", 0, 0)
       ELSE DayOf(ws[d], makeAbbrevWeekdays(ws[d].start.weekday, ws[d].end.weekday))
\* the start times the t-th clock span of the n-th chunk may be given
StartTimesFor(n, t) ==
    LET sp == schedule[n].clockSpans[t]
    IN IF sp.spread
       THEN {FoldHour(Add(sp.start, o)) : o \in 0..(SpreadLength(sp) - 1)}
       ELSE {FoldHour(sp.start)}
\* the chunks translated so far
Translated == 1..(sched - 1)

\* C25: the output of the translator is the concatenation, in chunk order, of the
\* cross product of each chunk's day entries and start times, day-major and
\* time-minor: a chunk adds exactly D * T events, D the number of its week spans
\* (1 when it has none, the day entry then "*-*-*") and T the number of its
\* expanded clock spans, the event of day d and time t at place (d-1)*T + t with
\* the d-th day entry and the start time every day of the chunk has for t.
C25_CrossProduct ==
    /\ Len(calendarEvents) = EventsBefore(sched)
    /\ \A n \in Translated :
          /\ DaysOfChunk(n) >= 1
          /\ \A d \in 1..DaysOfChunk(n) : \A t \in 1..TimesOfChunk(n) :
                LET e == calendarEvents[EventsBefore(n) + (d - 1) * TimesOfChunk(n) + t]
                IN /\ e.day = DayEntry(n, d)
                   /\ e.startTime \in StartTimesFor(n, t)
                   /\ e.startTime = calendarEvents[EventsBefore(n) + t].startTime
\* the translator returns the events of two chunks, one without week spans and
\* with two clock spans, one with two week spans and two clock spans
C25_Witness ==
    /\ pc = "done"
    /\ Len(schedule) = 2
    /\ Len(schedule[1].weekSpans) = 0 /\ Len(schedule[1].clockSpans) = 2
    /\ Len(schedule[2].weekSpans) = 2 /\ Len(schedule[2].clockSpans) = 2
    /\ schedule[2].weekSpans[1] # schedule[2].weekSpans[2]
    /\ schedule[2].clockSpans[1] # schedule[2].clockSpans[2]
    /\ Len(calendarEvents) = 6

====
